---- MODULE Spec2Model ----
(***************************************************************************)
(* A model of lindb's in-memory metric store (package memdb):              *)
(*   memoryDatabase  (database.go, src/unnamed/part_003 lines 1-516)       *)
(*   metricStore     (metric_store.go, src/unnamed/part_003 lines 518-)    *)
(*   fieldStore      (src/tsdb/memdb/field_store.go)                       *)
(* The tag index, the time series store, the segment store and the id     *)
(* generator are not part of the sources at hand; they are modelled from  *)
(* the specification.                                                      *)
(*                                                                         *)
(* Goroutines are the elements of Threads.  Every operation is cut into   *)
(* steps at its lock boundaries and atomic operations: one step is one    *)
(* critical section or one atomic load/store/swap.                         *)
(*   Spec        interleaves the steps of Write, FlushFamilyTo,            *)
(*               ResetMetricStore and setLimitations of all goroutines;    *)
(*   SpecSeq     runs one operation at a time, and adds the index flushes  *)
(*               and the sweeps of the evictor;                            *)
(*   SpecFields  interleaves GetFieldIDOrGenerate calls on one metric      *)
(*               store;                                                    *)
(*   SpecTwo     is SpecSeq on two metrics in two buckets;                 *)
(*   SpecSuggest applies SuggestTagKeys and SuggestTagValues to a metric   *)
(*               store with any small tag indexes;                         *)
(*   SpecPoints  writes points of one field into its field store;          *)
(*   SpecFieldStore  applies Write and FlushFieldTo calls to one field     *)
(*               store;                                                    *)
(*   SpecEvict   runs the evictor as a goroutine of its own beside the     *)
(*               operations of one goroutine, SpecEvictFair the same with  *)
(*               fewer operations and fair scheduling;                     *)
(*   SpecTasks   cancels the context beside the evictor, the tags-limit    *)
(*               syncer and FlushFamilyTo calls, under fair scheduling;    *)
(*   SpecCreate  interleaves the Writes of two goroutines, with            *)
(*               getOrCreateMStore cut at its two lock regions, and the    *)
(*               evictor.                                                  *)
(* The replication channel (package replication) is known by its tests    *)
(* only (src/unnamed/part_000) and is modelled from the specification:    *)
(*   SpecChannels     calls CreateChannel on a channel manager and         *)
(*                    GetOrCreateReplicator from two goroutines;           *)
(*   SpecReplication  follows the writes into one channel to the target    *)
(*                    of its replicator, with failing connections,         *)
(*                    broken streams and closes;                           *)
(*   SpecWorking      is the same channel with a stream that works, under  *)
(*                    fair scheduling of its tasks.                        *)
(* The shard (package tsdb) is known by its test only (lines 220-287 of    *)
(* src/tsdb/tblstore/forwardindex/merger_test.go):                         *)
(*   SpecShard        calls Flush on one shard from two goroutines.        *)
(* The intermediate task of a query (package parallel,                     *)
(* src/unnamed/part_002) works on a task manager and a task context that   *)
(* are not part of the sources at hand:                                    *)
(*   SpecReceive      calls Receive on one task from two goroutines.       *)
(***************************************************************************)
EXTENDS Integers, Sequences, FiniteSets, TLC

VARIABLES
    hash2MStore,          \* mStoresBucket.hash2MStore of all buckets: metric -> mStore reference (0: absent)
    metricID2Hash,        \* the metric IDs that md.metricID2Hash has an entry for
    mstores,              \* the metricStore objects, by reference
    tstores,              \* the timeSeriesStore objects, by reference
    size,                 \* memoryDatabase.size
    lastWroteFamilyTime,  \* memoryDatabase.lastWroteFamilyTime
    familyTimes,          \* memoryDatabase.familyTimes (the keys of the sync.Map)
    clock,                \* the wall clock newTagIndex takes its version from
    pc,                   \* position of every goroutine in its operation
    loc,                  \* local variables of every goroutine
    ops,                  \* operations that may still be started
    serial,               \* TRUE: one operation at a time (goroutine 1 runs them all)
    expFamilies,          \* history (one operation at a time): families written with success
                          \* and not flushed since
    flushFailed,          \* history: some FlushFamilyTo has returned an error
    passLog,              \* history: the flushes that ran one after the other, nothing between
    evictNotifier,        \* the evictor goroutine, which receives from md.evictNotifier: its
                          \* position and its local variables
    suggest,              \* a metric store's tag indexes and the last Suggest call on them
    fieldWrites,          \* a field store with the values of its segments, and the points
                          \* written into it
    cm,                   \* a ChannelManager: its channels and their replicators, the
                          \* calls in progress and the results of the calls
    rp,                   \* a channel with one replicator and its target
    shard,                \* a shard: its isFlushing flag and the Flush calls of the goroutines
    tasks,                \* the context of the memory database and its tags-limit syncer
    taskManager           \* the task manager of a query node and the Receive calls on it

vars == <<hash2MStore, metricID2Hash, mstores, tstores, size, lastWroteFamilyTime, familyTimes,
          clock, pc, loc, ops, serial, expFamilies, flushFailed, passLog, evictNotifier,
          suggest, fieldWrites, cm, rp, shard, tasks, taskManager>>

\* what no operation of the memory database changes
apart == <<serial, suggest, fieldWrites, cm, rp, shard, tasks, taskManager>>

---------------------------------------------------------------------------
(* Bounds of the model *)

MaxFamily == 1
MaxSeqOps == 5
MaxConcOps == 3
MaxFieldOps == 3
MaxTwoOps == 3
MaxEntrySets == 2
MaxLimit == 3
MaxPoints == 3
MaxShards == 2
MaxCalls == 4
MaxWrites == 3
MaxFaults == 3
WindowSize == 2
MaxFlushes == 4
MaxEvictOps == 3
MaxFairOps == 2
MaxFieldFlushes == 2
MaxSyncerCalls == 2
MaxTaskOps == 1
MaxCreateOps == 2
MaxReceives == 3
MaxNumOfTask == 2

Threads == {1, 2}
Metrics == {"cpu"}                \* the metric names the callers use
TwoMetrics == {"cpu", "mem"}     \* two metrics, in two buckets
TagSets == {"host=a", ""}        \* a series with one tag, a series with no tag
FamilyTimes == 0..MaxFamily      \* family start times, in units of one family
SegmentFamilies == 0..(MaxFamily + 1)   \* the family times of the segments of one field store
TagLimits == {0, 1}              \* limits the tags-limit syncer delivers
FieldNames == {"a", "b"}
FieldTypes == {"Sum", "Min"}
TagKeyStrs == {<<"h">>, <<"i">>}
TagValueStrs == {<<"a">>, <<"a", "b">>}
Prefixes == {<<>>, <<"a", "b">>, <<"h">>}
Limits == (-1)..MaxLimit
FieldKinds == {"Sum", "Min", "Max", "First", "Last"}
Values == {1, 2}
Slots == {0, 1}
Intervals == {1, 2}               \* the interval of a slot, in the unit of the family times
Databases == {"d1", "d2"}
NumShards == 1..MaxShards
ShardIDs == (-1)..MaxShards
Targets == {"n1", "n2"}
Payloads == {"p", "q"}

---------------------------------------------------------------------------
(* Program constants *)

emptyMStoreSize == 60
emptyFieldStoreSize == 26
DefaultMStoreMaxTagsCount == 10000000
TStoreMaxFieldsCount == 1024
MaxSuggestions == 10000
shardingCountOfMStores == 2
emptyTagIndexSize == 40
emptyTimeSeriesStoreSize == 30
emptySimpleFieldStoreSize == 20

NoRef == 0

\* a field store of a field of type kind, nothing written
NewFieldWrites(kind) == [kind |-> kind, fs |-> [cap |-> 0, nodes |-> <<>>], points |-> <<>>,
                         writtenSize |-> 0,
                         flushes |-> 0,       \* FlushFieldTo calls made
                         lastFlush |-> <<>>]  \* the last of them: its arguments and results

\* no field store at all
NoFieldWrites == [kind |-> "none"]

\* the tag indexes of a metric store, no Suggest call made
NewSuggest(mutable, immutable, hasImmutable) ==
    [mutable |-> mutable, immutable |-> immutable, hasImmutable |-> hasImmutable,
     op |-> "none", tagKey |-> <<>>, prefix |-> <<>>, limit |-> 0, result |-> <<>>]

\* no metric store to search
NoSuggest == [op |-> "none"]

ErrNil == "nil"
ErrTooManyTags == "ErrTooManyTags"
ErrResetVersionUnavailable == "ErrResetVersionUnavailable"
ErrNotExist == "ErrMetricNotExist"
ErrFlush == "ErrFlushMetric"
ErrWrongFieldType == "ErrWrongFieldType"
ErrTooManyFields == "ErrTooManyFields"
ErrGenerate == "ErrGenFieldID"
ErrShardConfigConflict == "ErrShardConfigConflict"
ErrClient == "get service client error"

\* a ChannelManager without channels that takes n calls
NewChannelManager(n) ==
    [numOfShards |-> [database \in Databases |-> 0],
     channels |-> <<>>,
     chans |-> <<>>,
     replicators |-> 0,
     pc |-> [t \in Threads |-> "idle"],
     loc |-> [t \in Threads |-> [ch |-> NoRef, target |-> ""]],
     calls |-> n,
     last |-> [op |-> "none", no |-> 0, database |-> "", numOfShard |-> 0, shardID |-> 0,
               err |-> ErrNil, ch |-> NoRef],
     succeeded |-> {},
     failed |-> FALSE,
     requested |-> {},
     returned |-> {},
     raced |-> FALSE]

\* no channel manager
NoManager == [calls |-> 0]

\* placeholder of the replication state of the specifications without a channel
NoReplication == [state |-> "none"]

\* a shard on which no Flush runs
NewShard ==
    [isFlushing |-> FALSE,                          \* shard.isFlushing
     pc |-> [t \in Threads |-> "idle"],             \* position of every goroutine in Flush
     todo |-> [t \in Threads |-> {}],               \* the families Flush has still to flush
     ret |-> [t \in Threads |->                     \* the Flush of the goroutine, running or last:
                [err |-> ErrNil,                    \*   its result,
                 skipped |-> FALSE,                 \*   it found isFlushing set,
                 called |-> FALSE]],                \*   it called a method of the memory database
     flushes |-> 0]                                 \* calls of Flush so far

\* no shard
NoShard == [isFlushing |-> FALSE]

\* the context given to NewMemoryDatabase, the calls of WithMaxTagsLimit and the
\* goroutine they start. ctx: "live", or "done" after the cancellation
NewTasks ==
    [ctx |-> "live",
     calls |-> MaxSyncerCalls,     \* WithMaxTagsLimit calls that may still be made
     once4Syncer |-> FALSE,        \* once4Syncer.Do has run its function
     syncers |-> 0,                \* syncer goroutines that run
     started |-> 0,                \* history: syncer goroutines started
     limitationCh |-> "open",      \* the channel of the first call: "open" or "closed"
     received |-> 0]               \* history: limitations the syncer has received

\* the context is not followed: it may be cancelled at any time
NoTasks == [ctx |-> "any"]

\* the task manager of an intermediate node before Process, and the goroutines that
\* call Receive. Task ID 1 is the one AllocTaskID gives, no task has the ID 2
NewTaskManager ==
    [submitted |-> FALSE,                      \* Process has submitted the task
     held |-> FALSE,                           \* the manager holds the task context
     expectResults |-> 0,                      \* results the task context still waits for
     leafs |-> 0,                              \* history: results the leaf tasks have yet to send
     calls |-> MaxReceives,                    \* Receive calls that may still be made
     pc |-> [t \in Threads |-> "idle"],        \* the position of a goroutine in Receive
     taskID |-> [t \in Threads |-> 0],         \* resp.TaskID of its call
     known |-> [t \in Threads |-> FALSE],      \* history: Get has returned a task context
     err |-> [t \in Threads |-> FALSE],        \* what its last call has returned
     responses |-> 0]                          \* history: SendResponse calls for the task

\* no query node
NoTaskManager == [submitted |-> FALSE]

---------------------------------------------------------------------------
(* Helpers *)

RECURSIVE SumOver(_, _)
SumOver(f, S) ==
    IF S = {} THEN 0
    ELSE LET x == CHOOSE y \in S : TRUE IN f[x] + SumOver(f, S \ {x})

Restrict(f, S) == [x \in (DOMAIN f) \cap S |-> f[x]]

FreshRef(f) == CHOOSE i \in 1..(Cardinality(DOMAIN f) + 1) : i \notin DOMAIN f

---------------------------------------------------------------------------
(* fieldStore: sStoreNodes is a slice, modelled by its elements and its     *)
(* capacity.  A segment store is modelled by its family time; the values in *)
(* its slots are left out.                                                  *)

newFieldStore == [cap |-> 0, nodes |-> <<>>]

\* sort.Search(n, f): binary search for the smallest index in [0, n) for which f holds
RECURSIVE sortSearch(_, _, _, _)
sortSearch(nodes, familyTime, i, j) ==
    IF i >= j THEN i
    ELSE LET h == (i + j) \div 2 IN
         IF ~(nodes[h + 1].familyTime >= familyTime)
         THEN sortSearch(nodes, familyTime, h + 1, j)
         ELSE sortSearch(nodes, familyTime, i, h)

\* index (0-based) of the segment of familyTime, or -1
GetSStoreIdx(fs, familyTime) ==
    LET idx == sortSearch(fs.nodes, familyTime, 0, Len(fs.nodes)) IN
    IF idx >= Len(fs.nodes) \/ fs.nodes[idx + 1].familyTime # familyTime THEN -1 ELSE idx

GetSStoreOk(fs, familyTime) == GetSStoreIdx(fs, familyTime) # -1

\* faulty variant: the new segment is appended and the slice is not sorted
insertSStoreNoSort(fs, sStore) ==
    [cap |-> IF Len(fs.nodes) < fs.cap THEN fs.cap ELSE IF fs.cap = 0 THEN 1 ELSE 2 * fs.cap,
     nodes |-> Append(fs.nodes, sStore)]

\* faulty variant: the bound test is off by one, so the last segment is never removed
removeSStoreOffByOne(fs, familyTime) ==
    LET idx == sortSearch(fs.nodes, familyTime, 0, Len(fs.nodes)) IN
    IF idx >= Len(fs.nodes) - 1 THEN fs
    ELSE IF fs.nodes[idx + 1].familyTime # familyTime THEN fs
    ELSE [fs EXCEPT !.nodes = SubSeq(fs.nodes, 1, idx) \o SubSeq(fs.nodes, idx + 2, Len(fs.nodes))]

\* fs.removeSStore(familyTime)
removeSStore(fs, familyTime) ==
    LET idx == sortSearch(fs.nodes, familyTime, 0, Len(fs.nodes)) IN
    IF idx = Len(fs.nodes) THEN fs
    ELSE IF fs.nodes[idx + 1].familyTime # familyTime THEN fs
    ELSE [fs EXCEPT !.nodes = SubSeq(fs.nodes, 1, idx) \o SubSeq(fs.nodes, idx + 2, Len(fs.nodes))]

\* sort.Sort of the slice by family time (insertion sort of the appended element)
RECURSIVE sortNodes(_)
sortNodes(s) ==
    IF Len(s) <= 1 THEN s
    ELSE LET m == CHOOSE i \in 1..Len(s) : \A j \in 1..Len(s) : s[i].familyTime <= s[j].familyTime
         IN <<s[m]>> \o sortNodes(SubSeq(s, 1, m - 1) \o SubSeq(s, m + 1, Len(s)))

\* capacity after append of one element (Go doubles small slices)
appendCap(fs) ==
    IF Len(fs.nodes) < fs.cap THEN fs.cap ELSE IF fs.cap = 0 THEN 1 ELSE 2 * fs.cap

insertSStore(fs, sStore) ==
    [cap |-> appendCap(fs), nodes |-> sortNodes(Append(fs.nodes, sStore))]

SStoreMemSize(sStore) == emptySimpleFieldStoreSize

\* sStore.Bytes(true): the data of the segment (its encoding is left out)
SStoreBytes(sStore) == sStore

\* fieldStore.Write of a Sum field: the new field store and the written size
FieldStoreWrite(fs, familyTime) ==
    IF ~GetSStoreOk(fs, familyTime)
    THEN LET sStore == [familyTime |-> familyTime]
             fs2 == insertSStore(fs, sStore)
         IN [fs |-> fs2, writtenSize |-> (fs2.cap - fs.cap) * 8 + SStoreMemSize(sStore)]
    ELSE [fs |-> fs, writtenSize |-> 0]

\* fieldStore.FlushFieldTo: the new field store, the flushed size, whether
\* FlushField was called, and the data of its calls; bytesErr is the error result
\* of sStore.Bytes
FlushFieldTo(fs, familyTime, bytesErr) ==
    IF ~GetSStoreOk(fs, familyTime)
    THEN [fs |-> fs, flushedSize |-> 0, emitted |-> FALSE, flushField |-> <<>>]
    ELSE LET sStore == fs.nodes[GetSStoreIdx(fs, familyTime) + 1]
             fs2 == removeSStore(fs, familyTime)
         IN IF bytesErr
            THEN [fs |-> fs2, flushedSize |-> 0, emitted |-> FALSE, flushField |-> <<>>]
            ELSE [fs |-> fs2, flushedSize |-> SStoreMemSize(sStore), emitted |-> TRUE,
                  flushField |-> <<SStoreBytes(sStore)>>]

FieldStoreMemSize(fs) ==
    emptyFieldStoreSize + 8 * fs.cap
        + SumOver([i \in 1..Len(fs.nodes) |-> SStoreMemSize(fs.nodes[i])], 1..Len(fs.nodes))

---------------------------------------------------------------------------
(* timeSeriesStore: the field stores of one series, by field id *)

\* expired: the store has not been used for longer than the eviction horizon
newTimeSeriesStore == [fStores |-> <<>>, expired |-> FALSE]

\* timeSeriesStore.Write of one Sum field with the resolved fieldID
TStoreWrite(ts, fieldID, familyTime) ==
    LET isNew == fieldID \notin DOMAIN ts.fStores
        fs == IF isNew THEN newFieldStore ELSE ts.fStores[fieldID]
        w == FieldStoreWrite(fs, familyTime)
    IN [ts |-> [fStores |-> (fieldID :> w.fs) @@ ts.fStores, expired |-> FALSE],
        writtenSize |-> w.writtenSize + (IF isNew THEN FieldStoreMemSize(newFieldStore) ELSE 0)]

\* timeSeriesStore.FlushSeriesTo: FlushFieldTo on every field store
TStoreFlushSeriesTo(ts, familyTime, bytesErr) ==
    LET r == [id \in DOMAIN ts.fStores |-> FlushFieldTo(ts.fStores[id], familyTime, bytesErr)]
    IN [ts |-> [ts EXCEPT !.fStores = [id \in DOMAIN ts.fStores |-> r[id].fs]],
        flushedSize |-> SumOver([id \in DOMAIN r |-> r[id].flushedSize], DOMAIN r),
        emitted |-> \E id \in DOMAIN r : r[id].emitted]

TStoreMemSize(ts) ==
    emptyTimeSeriesStoreSize
        + SumOver([id \in DOMAIN ts.fStores |-> FieldStoreMemSize(ts.fStores[id])], DOMAIN ts.fStores)

TStoreIsNoData(ts) == \A id \in DOMAIN ts.fStores : Len(ts.fStores[id].nodes) = 0

TStoreIsExpired(ts) == ts.expired

TStoreFamilies(ts) ==
    UNION {{ts.fStores[id].nodes[i].familyTime : i \in 1..Len(ts.fStores[id].nodes)}
               : id \in DOMAIN ts.fStores}

---------------------------------------------------------------------------
(* tagIndex: version, the series-id counter, and the series by tag set *)

newTagIndex(version) == [version |-> version, idCounter |-> 0, series |-> <<>>]

staticNopTagIndex == [version |-> 0, idCounter |-> 0, series |-> <<>>]

TagsUsed(index) == index.idCounter

TagsInUse(index) == Cardinality(DOMAIN index.series)

GetTStoreOk(index, tags) == tags \in DOMAIN index.series

\* GetTagKVEntrySets is not empty: some series of the index has a tag
HasTagEntries(index) == \E tags \in DOMAIN index.series : tags # ""

IndexTStores(index) == {index.series[tg].ts : tg \in DOMAIN index.series}

\* tagIndex.GetOrCreateTStore on a miss: a new series id, a new time series store
InsertNewTStore(index, tags, ref) ==
    [index EXCEPT !.idCounter = @ + 1,
                  !.series = (tags :> [sid |-> index.idCounter + 1, ts |-> ref]) @@ @]

\* tagIndex.FlushVersionDataTo: FlushSeriesTo on every series of the index
FlushVersionDataTo(index, heap, familyTime, bytesErr) ==
    LET refs == IndexTStores(index) \cap DOMAIN heap
        r == [ref \in refs |-> TStoreFlushSeriesTo(heap[ref], familyTime, bytesErr)]
    IN [heap |-> [ref \in DOMAIN heap |-> IF ref \in refs THEN r[ref].ts ELSE heap[ref]],
        flushedSize |-> SumOver([ref \in refs |-> r[ref].flushedSize], refs),
        emitted |-> \E ref \in refs : r[ref].emitted]

TagIndexMemSize(index, heap) ==
    emptyTagIndexSize
        + SumOver([ref \in IndexTStores(index) |-> TStoreMemSize(heap[ref])], IndexTStores(index))

IndexFamilies(index, heap) == UNION {TStoreFamilies(heap[ref]) : ref \in IndexTStores(index)}

---------------------------------------------------------------------------
(* metricStore *)

newMetricStore(metricID, version) ==
    [metricID |-> metricID,
     mutable |-> newTagIndex(version),
     immutable |-> staticNopTagIndex,
     fieldsMetas |-> <<>>,
     maxTagsLimit |-> DefaultMStoreMaxTagsCount,
     size |-> TagIndexMemSize(newTagIndex(version), <<>>),
     resets |-> 0,         \* history: ResetVersion calls that succeeded since the last flush
     lift |-> "none"]      \* history: rejected -> reset -> accepted | refused

\* atomicGetImmutable(ms) != nil
HasImmutable(ms) == ms.immutable.version # 0

\* faulty variant: the limit itself is still admitted
isFullStrict(ms) == TagsUsed(ms.mutable) > ms.maxTagsLimit

\* ms.isFull(): GetTagsUsed() >= maxTagsLimit
isFull(ms) == TagsUsed(ms.mutable) >= ms.maxTagsLimit

MStoreIsEmpty(ms) == TagsInUse(ms.mutable) = 0 /\ ~HasImmutable(ms)

MStoreMemSize(ms, heap) ==
    emptyMStoreSize + ms.size
        + (IF HasImmutable(ms) THEN TagIndexMemSize(ms.immutable, heap) ELSE 0)

\* field.Metas.GetFromName: the positions of the meta of fieldName (none or one)
GetFromName(fmList, fieldName) == {i \in 1..Len(fmList) : fmList[i].name = fieldName}

MetaOf(fmList, fieldName) == fmList[CHOOSE i \in GetFromName(fmList, fieldName) : TRUE]

\* GetFieldIDOrGenerate before the lock: the outcome on the loaded list
\* (done: the call returns without taking the lock)
FastPath(fmList, fieldName, fieldType) ==
    IF GetFromName(fmList, fieldName) # {}
    THEN IF MetaOf(fmList, fieldName).type = fieldType
         THEN [done |-> TRUE, id |-> MetaOf(fmList, fieldName).id, err |-> ErrNil]
         ELSE [done |-> TRUE, id |-> 0, err |-> ErrWrongFieldType]
    ELSE IF Len(fmList) >= TStoreMaxFieldsCount
         THEN [done |-> TRUE, id |-> 0, err |-> ErrTooManyFields]
         ELSE [done |-> FALSE, id |-> 0, err |-> ErrNil]

\* generator.GenFieldID: a new field id, or the generator's error
GenFieldID(fmList, genErr) ==
    IF genErr THEN [id |-> 0, err |-> ErrGenerate] ELSE [id |-> Len(fmList) + 1, err |-> ErrNil]

\* GetFieldIDOrGenerate under ms.mux: the double check, the generator, the insert
\* into a clone and the store of the clone
SlowPath(fmList, fieldName, fieldType, genErr) ==
    IF GetFromName(fmList, fieldName) # {}
    THEN [fmList |-> fmList, id |-> MetaOf(fmList, fieldName).id, err |-> ErrNil]
    ELSE LET gen == GenFieldID(fmList, genErr) IN
         IF gen.err # ErrNil
         THEN [fmList |-> fmList, id |-> 0, err |-> gen.err]
         ELSE [fmList |-> Append(fmList, [name |-> fieldName, type |-> fieldType, id |-> gen.id]),
               id |-> gen.id, err |-> ErrNil]

\* faulty variant: the immutable index is left out
MStoreFlushForwardIndexToMutableOnly(ms) == {ms.mutable.version}

\* metricStore.Evict: the series of the mutable index that are expired and hold no
\* data are removed; the metric store after it, and the evicted size
MStoreEvict(ms, heap, expired) ==
    LET evictList == {tags \in DOMAIN ms.mutable.series :
                         tags \in expired /\ TStoreIsNoData(heap[ms.mutable.series[tags].ts])}
        evictedSize == SumOver([tags \in evictList |-> TStoreMemSize(heap[ms.mutable.series[tags].ts])],
                               evictList)
    IN [ms |-> [ms EXCEPT !.mutable.series = Restrict(@, DOMAIN @ \ evictList),
                          !.size = @ - evictedSize],
        evictedSize |-> evictedSize]

\* Evict, first check under the read lock: the ids of the series of the mutable
\* index that are expired and hold no data
MStoreEvictFirstCheck(ms, heap) ==
    {ms.mutable.series[tags].sid : tags \in {tg \in DOMAIN ms.mutable.series :
        /\ TStoreIsExpired(heap[ms.mutable.series[tg].ts])
        /\ TStoreIsNoData(heap[ms.mutable.series[tg].ts])}}

\* mutable.GetTStoreBySeriesID for the ids of evictList: the tag sets found
SeriesOfIDs(index, evictList) == {tags \in DOMAIN index.series : index.series[tags].sid \in evictList}

\* faulty variant: the series of the first check are removed without a second check
MStoreEvictNoDoubleCheck(ms, heap, evictList) ==
    LET removed == SeriesOfIDs(ms.mutable, evictList)
        evictedSize == SumOver([tags \in removed |-> TStoreMemSize(heap[ms.mutable.series[tags].ts])],
                               removed)
    IN [ms |-> [ms EXCEPT !.mutable.series = Restrict(@, DOMAIN @ \ removed),
                          !.size = @ - evictedSize],
        evictedSize |-> evictedSize,
        kept |-> {}]

\* Evict, double check under the write lock: the series of evictList that are still
\* in the mutable index, expired and without data are removed; evictedSize is the
\* MemSize of the removed stores, ms.size.Sub(evictedSize)
MStoreEvictDoubleCheck(ms, heap, evictList) ==
    LET found == SeriesOfIDs(ms.mutable, evictList)
        doubleCheckEvictList == {tags \in found :
                                    /\ TStoreIsExpired(heap[ms.mutable.series[tags].ts])
                                    /\ TStoreIsNoData(heap[ms.mutable.series[tags].ts])}
        evictedSize == SumOver([tags \in doubleCheckEvictList |->
                                   TStoreMemSize(heap[ms.mutable.series[tags].ts])],
                               doubleCheckEvictList)
    IN [ms |-> [ms EXCEPT !.mutable.series = Restrict(@, DOMAIN @ \ doubleCheckEvictList),
                          !.size = @ - evictedSize],
        evictedSize |-> evictedSize,
        kept |-> {ms.mutable.series[tags].sid : tags \in found \ doubleCheckEvictList}]

\* metricStore.FlushForwardIndexTo: the versions given to flusher.FlushVersion
MStoreFlushForwardIndexTo(ms) ==
    {ms.mutable.version} \cup (IF HasImmutable(ms) THEN {ms.immutable.version} ELSE {})

\* metricStore.FlushInvertedIndexTo: the versions given to flusher.FlushVersion, one
\* call for each tag value an index holds
MStoreFlushInvertedIndexTo(ms) ==
    (IF HasTagEntries(ms.mutable) THEN {ms.mutable.version} ELSE {})
        \cup (IF HasImmutable(ms) /\ HasTagEntries(ms.immutable)
              THEN {ms.immutable.version} ELSE {})

MStoreFamilies(ms, heap) ==
    IndexFamilies(ms.mutable, heap) \cup IndexFamilies(ms.immutable, heap)

\* the tag keys of the tags of a series: "host=a" has the key "host"
TagKeysOf(tags) == IF tags = "" THEN {} ELSE {"host"}

\* tagIndex.GetSeriesIDsForTag: the series IDs under the tag key, nil (found FALSE)
\* when the index has no such key
IndexGetSeriesIDsForTag(index, tagKey) ==
    LET ids == {index.series[tags].sid : tags \in {x \in DOMAIN index.series : tagKey \in TagKeysOf(x)}}
    IN [found |-> ids # {}, bitMap |-> ids]

\* tagIndex.FindSeriesIDsByExpr for an expression tagKey = tagValue, given as the tags
IndexFindSeriesIDsByExpr(index, expr) ==
    LET ids == {index.series[tags].sid : tags \in {x \in DOMAIN index.series : x = expr /\ x # ""}}
    IN [found |-> ids # {}, bitMap |-> ids]

\* series.NewMultiVerSeriesIDSet
NewMultiVerSeriesIDSet == <<>>

\* MultiVerSeriesIDSet.Add: versions[version] = bitMap
MultiVerAdd(set, version, bitMap) ==
    [v \in DOMAIN set \cup {version} |-> IF v = version THEN bitMap ELSE set[v]]

\* metricStore.GetSeriesIDsForTag: the closure adds under ms.mutable.Version() for
\* the mutable and for the immutable index
MStoreGetSeriesIDsForTag(ms, tagKey) ==
    LET inMutable == IndexGetSeriesIDsForTag(ms.mutable, tagKey)
        inImmutable == IndexGetSeriesIDsForTag(ms.immutable, tagKey)
        first == IF inMutable.found
                 THEN MultiVerAdd(NewMultiVerSeriesIDSet, ms.mutable.version, inMutable.bitMap)
                 ELSE NewMultiVerSeriesIDSet
    IN IF HasImmutable(ms) /\ inImmutable.found
       THEN MultiVerAdd(first, ms.mutable.version, inImmutable.bitMap)
       ELSE first

\* metricStore.FindSeriesIDsByExpr: the closure adds under tagIdx.Version()
MStoreFindSeriesIDsByExpr(ms, expr) ==
    LET inMutable == IndexFindSeriesIDsByExpr(ms.mutable, expr)
        inImmutable == IndexFindSeriesIDsByExpr(ms.immutable, expr)
        first == IF inMutable.found
                 THEN MultiVerAdd(NewMultiVerSeriesIDSet, ms.mutable.version, inMutable.bitMap)
                 ELSE NewMultiVerSeriesIDSet
    IN IF HasImmutable(ms) /\ inImmutable.found
       THEN MultiVerAdd(first, ms.immutable.version, inImmutable.bitMap)
       ELSE first

---------------------------------------------------------------------------
(* memoryDatabase: state helpers *)

\* getBucket: shardingCountMask & hash(metricName)
BucketOf(metric) == IF metric = "cpu" THEN 0 ELSE 1

\* allMetricStores of one bucket
allMetricStores(bucket) ==
    {hash2MStore[m] : m \in {x \in DOMAIN hash2MStore : BucketOf(x) = bucket /\ hash2MStore[x] # NoRef}}

LiveMStores == {hash2MStore[m] : m \in {x \in DOMAIN hash2MStore : hash2MStore[x] # NoRef}}

\* the local variables of a goroutine that runs no operation
NoLoc ==
    [op |-> "none", m |-> "", tg |-> "", ft |-> 0, ms |-> NoRef, ts |-> NoRef,
     created |-> 0, written |-> 0, err |-> ErrNil, b |-> 0, todo |-> {},
     imm |-> staticNopTagIndex, flushed |-> 0,
     fieldName |-> "", fieldType |-> "", fieldID |-> 0,
     newStore |-> FALSE,   \* history: getOrCreateMStore has created the store
     dropped |-> {},       \* history: the immutable indexes this flush has removed
     calls |-> <<>>,       \* history (one operation at a time): the steps of the
                           \* FlushMetricsDataTo that runs or has run last
     handed |-> {},        \* history: versions whose data this flush gave to the flusher
     handedTagged |-> {}]  \* history: those of them whose index held a series with a tag

\* time series stores some index or some goroutine still refers to
ReachableTStores(mss, lc) ==
    UNION {IndexTStores(mss[r].mutable) \cup IndexTStores(mss[r].immutable) : r \in DOMAIN mss}
        \cup {lc[t].ts : t \in Threads} \cup UNION {IndexTStores(lc[t].imm) : t \in Threads}
        \cup UNION {UNION {IndexTStores(index) : index \in lc[t].dropped} : t \in Threads}

\* the garbage collector: objects nothing refers to are gone
Collect(heap, mss, lc) == Restrict(heap, ReachableTStores(mss, lc))

Quiescent == \A t \in Threads : pc[t] = "idle"

\* bucket.rwLock of a bucket is held: the evictor holds it from its second IsEmpty
\* check to the end of the deletion (the goroutines take and release it in one step)
BucketLocked(bucket) ==
    evictNotifier.pc = "e_delete" /\ BucketOf(evictNotifier.m) = bucket

Goto(t, label) == pc' = [pc EXCEPT ![t] = label] /\ UNCHANGED apart

\* the evictor goroutine at the position pc. Positions: "none" (no evictor runs),
\* "start" (go md.evictor(ctx) has not reached the select yet), "select" (it waits
\* in the select), "e_..." (in a sweep), "exited" (the context was cancelled)
NewEvictor(position) ==
    [pc |-> position,
     b |-> 0,              \* the bucket the sweep goes to next
     todo |-> {},          \* metric stores of the bucket not visited yet: <<hash, mStore>>
     m |-> "",             \* metricHashes[idx]
     ms |-> NoRef,         \* mStore
     evictList |-> {},     \* Evict: the series ids of the first check
     evictedSize |-> 0,    \* Evict: its result
     kept |-> {},          \* history: series ids of evictList the double check has kept
     owed |-> FALSE]       \* history: a FlushFamilyTo has returned and no sweep has
                           \* read its first bucket since

\* evictNotifier is made without a buffer: the send of the select with default
\* succeeds when the evictor waits in its select, which then starts a sweep, and
\* does nothing otherwise
Notify(ev) ==
    IF ev.pc = "none" THEN ev
    ELSE IF ev.pc = "select" THEN [ev EXCEPT !.pc = "e_snapshot", !.b = 0, !.owed = TRUE]
    ELSE [ev EXCEPT !.owed = TRUE]

\* what only the return of a flush changes
NoHistory == UNCHANGED <<flushFailed, passLog, evictNotifier>>

\* the last three flushes of a run of flushes
Last3(log) == IF Len(log) > 3 THEN SubSeq(log, Len(log) - 2, Len(log)) ELSE log

\* a flush has returned: the run of flushes goes on, or is broken by an error
\* (runs are recorded when one operation runs at a time)
LogFlush(kind, versions, tagged, failed) ==
    passLog' = IF ~serial \/ failed THEN <<>>
               ELSE Last3(Append(passLog, [kind |-> kind, versions |-> versions,
                                           tagged |-> tagged]))

\* an operation other than a flush starts: it ends the run of flushes
EndsPass == UNCHANGED <<flushFailed, evictNotifier>> /\ passLog' = <<>>

\* a call is started on the lowest idle goroutine (goroutines are interchangeable),
\* and in the one-at-a-time mode on goroutine 1 only
Admit(t) ==
    /\ pc[t] = "idle"
    /\ ops > 0
    /\ \A u \in Threads : u < t => pc[u] # "idle"
    /\ serial => t = 1

---------------------------------------------------------------------------
(* memoryDatabase.Write *)

\* a call of Write(metric): getOrCreateMStore(metric.Name, hash)
WriteStart(t, m, tg, ft) ==
    /\ EndsPass
    /\ Admit(t)
    /\ ~BucketLocked(BucketOf(m))
    /\ ops' = ops - 1
    /\ LET call == [NoLoc EXCEPT !.op = "write", !.m = m, !.tg = tg, !.ft = ft]
       IN IF hash2MStore[m] # NoRef
          THEN /\ loc' = [loc EXCEPT ![t] = [call EXCEPT !.ms = hash2MStore[m]]]
               /\ UNCHANGED <<hash2MStore, metricID2Hash, mstores, size, clock>>
          ELSE LET ref == FreshRef(mstores)
                   mStore == newMetricStore(m, clock)
               IN /\ mstores' = (ref :> mStore) @@ mstores
                  /\ hash2MStore' = [hash2MStore EXCEPT ![m] = ref]
                  /\ metricID2Hash' = metricID2Hash \cup {mStore.metricID}
                  /\ size' = size + MStoreMemSize(mStore, tstores)
                  /\ clock' = clock + 1
                  /\ loc' = [loc EXCEPT ![t] = [call EXCEPT !.ms = ref, !.newStore = TRUE]]
    /\ Goto(t, "w_isFull")
    /\ UNCHANGED <<tstores, lastWroteFamilyTime, familyTimes, expFamilies>>

\* a call of Write(metric), with getOrCreateMStore in its two lock regions:
\* getMStoreByMetricHash looks the store up under the read lock of the bucket
GetMStoreByMetricHash(t, m, tg, ft) ==
    /\ EndsPass
    /\ Admit(t)
    /\ ~BucketLocked(BucketOf(m))
    /\ ops' = ops - 1
    /\ LET call == [NoLoc EXCEPT !.op = "write", !.m = m, !.tg = tg, !.ft = ft]
       IN IF hash2MStore[m] # NoRef
          THEN /\ loc' = [loc EXCEPT ![t] = [call EXCEPT !.ms = hash2MStore[m]]]
               /\ Goto(t, "w_isFull")
          ELSE /\ loc' = [loc EXCEPT ![t] = call]
               /\ Goto(t, "w_mStore")
    /\ UNCHANGED <<hash2MStore, metricID2Hash, mstores, size, clock, tstores,
                   lastWroteFamilyTime, familyTimes, expFamilies>>

\* faulty variant: under the write lock the store is created without a second look
\* into the bucket
GetOrCreateMStoreNoDoubleCheck(t) ==
    /\ NoHistory
    /\ pc[t] = "w_mStore"
    /\ ~BucketLocked(BucketOf(loc[t].m))
    /\ LET ref == FreshRef(mstores)
           mStore == newMetricStore(loc[t].m, clock)
       IN /\ mstores' = (ref :> mStore) @@ mstores
          /\ hash2MStore' = [hash2MStore EXCEPT ![loc[t].m] = ref]
          /\ metricID2Hash' = metricID2Hash \cup {mStore.metricID}
          /\ size' = size + MStoreMemSize(mStore, tstores)
          /\ clock' = clock + 1
          /\ loc' = [loc EXCEPT ![t].ms = ref, ![t].newStore = TRUE]
    /\ Goto(t, "w_isFull")
    /\ UNCHANGED <<tstores, lastWroteFamilyTime, familyTimes, ops, expFamilies>>

\* getOrCreateMStore after a miss: bucket.rwLock.Lock(), the second lookup, and
\* when it misses too newMetricStore, md.size.Add, the entry of the bucket and
\* metricID2Hash.Store
GetOrCreateMStoreLocked(t) ==
    /\ NoHistory
    /\ pc[t] = "w_mStore"
    /\ ~BucketLocked(BucketOf(loc[t].m))
    /\ IF hash2MStore[loc[t].m] # NoRef
       THEN /\ loc' = [loc EXCEPT ![t].ms = hash2MStore[loc[t].m]]
            /\ UNCHANGED <<hash2MStore, metricID2Hash, mstores, size, clock>>
       ELSE LET ref == FreshRef(mstores)
                mStore == newMetricStore(loc[t].m, clock)
            IN /\ mstores' = (ref :> mStore) @@ mstores
               /\ hash2MStore' = [hash2MStore EXCEPT ![loc[t].m] = ref]
               /\ metricID2Hash' = metricID2Hash \cup {mStore.metricID}
               /\ size' = size + MStoreMemSize(mStore, tstores)
               /\ clock' = clock + 1
               /\ loc' = [loc EXCEPT ![t].ms = ref, ![t].newStore = TRUE]
    /\ Goto(t, "w_isFull")
    /\ UNCHANGED <<tstores, lastWroteFamilyTime, familyTimes, ops, expFamilies>>

\* history of a metric store: a Write was rejected for too many tags, then a
\* ResetVersion succeeded, then the next Write (limit unchanged and > 0) passed
\* the check ("accepted") or did not ("refused")
LiftAfterCheck(ms, err) ==
    IF err = ErrTooManyTags
    THEN IF ms.lift = "reset" /\ ms.maxTagsLimit > 0 THEN "refused" ELSE "rejected"
    ELSE IF ms.lift = "reset" THEN "accepted" ELSE IF ms.lift = "rejected" THEN "none" ELSE ms.lift

\* metricStore.Write: the isFull check
WriteIsFull(t) ==
    /\ NoHistory
    /\ pc[t] = "w_isFull"
    /\ IF isFull(mstores[loc[t].ms])
       THEN /\ loc' = [loc EXCEPT ![t].err = ErrTooManyTags]
            /\ Goto(t, "w_ret")
       ELSE /\ Goto(t, "w_getTStore")
            /\ UNCHANGED loc
    /\ mstores' = [mstores EXCEPT ![loc[t].ms].lift = LiftAfterCheck(mstores[loc[t].ms], loc'[t].err)]
    /\ UNCHANGED <<hash2MStore, metricID2Hash, tstores, size, lastWroteFamilyTime, familyTimes,
                   clock, ops, expFamilies>>

\* metricStore.Write: mutable.GetTStore under the read lock
WriteGetTStore(t) ==
    /\ NoHistory
    /\ pc[t] = "w_getTStore"
    /\ LET index == mstores[loc[t].ms].mutable IN
       IF GetTStoreOk(index, loc[t].tg)
       THEN /\ loc' = [loc EXCEPT ![t].ts = index.series[loc[t].tg].ts]
            /\ Goto(t, "w_tsWrite")
       ELSE /\ Goto(t, "w_create")
            /\ UNCHANGED loc
    /\ UNCHANGED <<hash2MStore, metricID2Hash, mstores, tstores, size, lastWroteFamilyTime, familyTimes,
                   clock, ops, expFamilies>>

\* metricStore.Write: mutable.GetOrCreateTStore under the write lock, ms.size.Add(createdSize)
WriteCreateTStore(t) ==
    /\ NoHistory
    /\ pc[t] = "w_create"
    /\ LET ms == mstores[loc[t].ms]
           index == ms.mutable
       IN IF GetTStoreOk(index, loc[t].tg)
          THEN /\ loc' = [loc EXCEPT ![t].ts = index.series[loc[t].tg].ts]
               /\ UNCHANGED <<mstores, tstores>>
          ELSE LET ref == FreshRef(tstores)
                   createdSize == TStoreMemSize(newTimeSeriesStore)
               IN /\ tstores' = (ref :> newTimeSeriesStore) @@ tstores
                  /\ mstores' = [mstores EXCEPT ![loc[t].ms].mutable = InsertNewTStore(index, loc[t].tg, ref),
                                                ![loc[t].ms].size = @ + createdSize]
                  /\ loc' = [loc EXCEPT ![t].ts = ref, ![t].created = createdSize]
    /\ Goto(t, "w_tsWrite")
    /\ UNCHANGED <<hash2MStore, metricID2Hash, size, lastWroteFamilyTime, familyTimes, clock, ops, expFamilies>>

\* GetFieldIDOrGenerate as one step of timeSeriesStore.Write: the field metas after the call
FieldMetasAfter(fmList, fieldName) ==
    IF FastPath(fmList, fieldName, "Sum").done THEN fmList
    ELSE SlowPath(fmList, fieldName, "Sum", FALSE).fmList

FieldIDOf(fmList, fieldName) == MetaOf(fmList, fieldName).id

\* metricStore.Write: tStore.Write, UpdateIndexTimeRange, ms.size.Add(writtenSize)
WriteTStore(t) ==
    /\ NoHistory
    /\ pc[t] = "w_tsWrite"
    /\ LET ms == mstores[loc[t].ms]
           fm == FieldMetasAfter(ms.fieldsMetas, "f1")
           w == TStoreWrite(tstores[loc[t].ts], FieldIDOf(fm, "f1"), loc[t].ft)
       IN /\ mstores' = [mstores EXCEPT ![loc[t].ms].fieldsMetas = fm,
                                         ![loc[t].ms].size = @ + w.writtenSize]
          /\ loc' = [loc EXCEPT ![t].ts = NoRef, ![t].written = w.writtenSize + loc[t].created]
          /\ tstores' = Collect([tstores EXCEPT ![loc[t].ts] = w.ts], mstores', loc')
    /\ Goto(t, "w_swap")
    /\ UNCHANGED <<hash2MStore, metricID2Hash, size, lastWroteFamilyTime, familyTimes, clock, ops, expFamilies>>

\* addFamilyTime: lastWroteFamilyTime.Swap(familyTime)
WriteSwap(t) ==
    /\ NoHistory
    /\ pc[t] = "w_swap"
    /\ lastWroteFamilyTime' = loc[t].ft
    /\ IF lastWroteFamilyTime = loc[t].ft THEN Goto(t, "w_ret") ELSE Goto(t, "w_store")
    /\ UNCHANGED <<hash2MStore, metricID2Hash, mstores, tstores, size, familyTimes, clock, loc, ops, expFamilies>>

\* addFamilyTime: familyTimes.Store(familyTime)
WriteStore(t) ==
    /\ NoHistory
    /\ pc[t] = "w_store"
    /\ familyTimes' = familyTimes \cup {loc[t].ft}
    /\ Goto(t, "w_ret")
    /\ UNCHANGED <<hash2MStore, metricID2Hash, mstores, tstores, size, lastWroteFamilyTime, clock, loc, ops,
                   expFamilies>>

\* md.size.Add(writtenSize); return err
WriteReturn(t) ==
    /\ NoHistory
    /\ pc[t] = "w_ret"
    /\ size' = size + loc[t].written
    /\ expFamilies' = IF serial /\ loc[t].err = ErrNil THEN expFamilies \cup {loc[t].ft}
                      ELSE expFamilies
    /\ loc' = [loc EXCEPT ![t] = NoLoc]
    /\ Goto(t, "idle")
    /\ UNCHANGED <<hash2MStore, metricID2Hash, mstores, tstores, lastWroteFamilyTime, familyTimes, clock, ops>>

---------------------------------------------------------------------------
(* memoryDatabase.FlushFamilyTo *)

\* a call of FlushFamilyTo(flusher, familyTime): md.familyTimes.Delete(familyTime)
FlushStart(t, ft) ==
    /\ NoHistory
    /\ Admit(t)
    /\ ops' = ops - 1
    /\ loc' = [loc EXCEPT ![t] = [NoLoc EXCEPT !.op = "flush", !.ft = ft]]
    /\ expFamilies' = IF serial THEN expFamilies \ {ft} ELSE expFamilies
    /\ familyTimes' = familyTimes \ {ft}
    /\ Goto(t, "f_store0")
    /\ UNCHANGED <<hash2MStore, metricID2Hash, mstores, tstores, size, lastWroteFamilyTime, clock>>

\* md.lastWroteFamilyTime.Store(0)
FlushStoreZero(t) ==
    /\ NoHistory
    /\ pc[t] = "f_store0"
    /\ lastWroteFamilyTime' = 0
    /\ Goto(t, "f_snapshot")
    /\ UNCHANGED <<hash2MStore, metricID2Hash, mstores, tstores, size, familyTimes, clock, loc, ops, expFamilies>>

\* the loop over the buckets: bkt.allMetricStores() of the next bucket
FlushSnapshot(t) ==
    /\ NoHistory
    /\ pc[t] = "f_snapshot"
    /\ ~BucketLocked(loc[t].b)
    /\ IF loc[t].b = shardingCountOfMStores
       THEN /\ Goto(t, "f_ret")
            /\ UNCHANGED loc
       ELSE LET stores == allMetricStores(loc[t].b) IN
            /\ loc' = [loc EXCEPT ![t].b = @ + 1, ![t].todo = stores]
            /\ IF stores = {} THEN Goto(t, "f_snapshot") ELSE Goto(t, "f_mutable")
    /\ UNCHANGED <<hash2MStore, metricID2Hash, mstores, tstores, size, lastWroteFamilyTime, familyTimes, clock,
                   ops, expFamilies>>

\* a step of FlushMetricsDataTo: a call of the flusher, a flush of the data of
\* a tag index, or the store into the immutable slot
FlushCall(call, arg, err) == [call |-> call, arg |-> arg, err |-> err]

\* the steps of FlushMetricsDataTo up to the end of the read lock
CallsUnderRLock(ms) ==
    <<FlushCall("FlushFieldMetas", 0, ErrNil),
      FlushCall("FlushVersionDataTo", ms.mutable.version, ErrNil),
      FlushCall("immutable.Store", staticNopTagIndex.version, ErrNil)>>

\* the steps of FlushMetricsDataTo after the read lock
CallsAfterRLock(immutable, metricID, err) ==
    (IF immutable.version # 0
     THEN <<FlushCall("FlushVersionDataTo", immutable.version, ErrNil)>> ELSE <<>>)
        \o <<FlushCall("FlushMetric", metricID, err)>>

\* faulty variant: the immutable index stays in its slot
FlushMutableKeepsImmutable(t, ref) ==
    /\ NoHistory
    /\ pc[t] = "f_mutable"
    /\ ref \in loc[t].todo
    /\ LET ms == mstores[ref]
           r == FlushVersionDataTo(ms.mutable, tstores, loc[t].ft, FALSE)
       IN /\ tstores' = r.heap
          /\ mstores' = [mstores EXCEPT ![ref].resets = 0]
          /\ loc' = [loc EXCEPT ![t].ms = ref, ![t].todo = @ \ {ref},
                                ![t].imm = ms.immutable, ![t].flushed = r.flushedSize,
                                ![t].calls = IF serial THEN CallsUnderRLock(ms) ELSE @,
                                ![t].handed = @ \cup (IF r.emitted THEN {ms.mutable.version} ELSE {}),
                                ![t].handedTagged = @ \cup (IF r.emitted /\ HasTagEntries(ms.mutable)
                                                            THEN {ms.mutable.version} ELSE {})]
    /\ Goto(t, "f_immutable")
    /\ UNCHANGED <<hash2MStore, metricID2Hash, size, lastWroteFamilyTime, familyTimes, clock, ops, expFamilies>>

\* FlushMetricsDataTo, up to the end of the read lock: flusher.FlushFieldMetas, the
\* mutable index is flushed, the immutable index is taken and the placeholder stored
\* in its place
FlushMutable(t, ref) ==
    /\ NoHistory
    /\ pc[t] = "f_mutable"
    /\ ref \in loc[t].todo
    /\ LET ms == mstores[ref]
           r == FlushVersionDataTo(ms.mutable, tstores, loc[t].ft, FALSE)
       IN /\ tstores' = r.heap
          /\ mstores' = [mstores EXCEPT ![ref].immutable = staticNopTagIndex, ![ref].resets = 0]
          /\ loc' = [loc EXCEPT ![t].ms = ref, ![t].todo = @ \ {ref},
                                ![t].imm = ms.immutable, ![t].flushed = r.flushedSize,
                                ![t].calls = IF serial THEN CallsUnderRLock(ms) ELSE @,
                                ![t].handed = @ \cup (IF r.emitted THEN {ms.mutable.version} ELSE {}),
                                ![t].handedTagged = @ \cup (IF r.emitted /\ HasTagEntries(ms.mutable)
                                                            THEN {ms.mutable.version} ELSE {})]
    /\ Goto(t, "f_immutable")
    /\ UNCHANGED <<hash2MStore, metricID2Hash, size, lastWroteFamilyTime, familyTimes, clock, ops, expFamilies>>

\* faulty variant: after an error of a metric store the loop goes on with the next one
FlushImmutableGoesOn(t, flushErr) ==
    /\ NoHistory
    /\ pc[t] = "f_immutable"
    /\ LET r == FlushVersionDataTo(loc[t].imm, tstores, loc[t].ft, FALSE)
           flushedSize == loc[t].flushed + r.flushedSize
       IN /\ mstores' = [mstores EXCEPT ![loc[t].ms].size = @ - flushedSize]
          /\ size' = size - flushedSize
          /\ loc' = [loc EXCEPT ![t].ms = NoRef, ![t].imm = staticNopTagIndex, ![t].flushed = 0,
                                ![t].err = IF flushErr THEN ErrFlush ELSE @,
                                ![t].calls = IF serial
                                             THEN @ \o CallsAfterRLock(loc[t].imm, mstores[loc[t].ms].metricID,
                                                                       IF flushErr THEN ErrFlush ELSE ErrNil)
                                             ELSE @,
                                ![t].dropped = @ \cup (IF loc[t].imm.version # 0 THEN {loc[t].imm} ELSE {}),
                                ![t].handed = @ \cup (IF r.emitted THEN {loc[t].imm.version} ELSE {}),
                                ![t].handedTagged = @ \cup (IF r.emitted /\ HasTagEntries(loc[t].imm)
                                                            THEN {loc[t].imm.version} ELSE {})]
          /\ tstores' = Collect(r.heap, mstores', loc')
    /\ IF loc[t].todo = {} THEN Goto(t, "f_snapshot") ELSE Goto(t, "f_mutable")
    /\ UNCHANGED <<hash2MStore, metricID2Hash, lastWroteFamilyTime, familyTimes, clock, ops, expFamilies>>

\* FlushMetricsDataTo, after the read lock: the former immutable index is flushed,
\* ms.size.Sub(flushedSize), flusher.FlushMetric; then md.size.Sub(flushedSize)
FlushImmutable(t, flushErr) ==
    /\ NoHistory
    /\ pc[t] = "f_immutable"
    /\ LET r == FlushVersionDataTo(loc[t].imm, tstores, loc[t].ft, FALSE)
           flushedSize == loc[t].flushed + r.flushedSize
       IN /\ mstores' = [mstores EXCEPT ![loc[t].ms].size = @ - flushedSize]
          /\ size' = size - flushedSize
          /\ loc' = [loc EXCEPT ![t].ms = NoRef, ![t].imm = staticNopTagIndex, ![t].flushed = 0,
                                ![t].err = IF flushErr THEN ErrFlush ELSE ErrNil,
                                ![t].calls = IF serial
                                             THEN @ \o CallsAfterRLock(loc[t].imm, mstores[loc[t].ms].metricID,
                                                                       IF flushErr THEN ErrFlush ELSE ErrNil)
                                             ELSE @,
                                ![t].dropped = @ \cup (IF loc[t].imm.version # 0 THEN {loc[t].imm} ELSE {}),
                                ![t].handed = @ \cup (IF r.emitted THEN {loc[t].imm.version} ELSE {}),
                                ![t].handedTagged = @ \cup (IF r.emitted /\ HasTagEntries(loc[t].imm)
                                                            THEN {loc[t].imm.version} ELSE {})]
          /\ tstores' = Collect(r.heap, mstores', loc')
    /\ IF flushErr THEN Goto(t, "f_ret")
       ELSE IF loc[t].todo = {} THEN Goto(t, "f_snapshot") ELSE Goto(t, "f_mutable")
    /\ UNCHANGED <<hash2MStore, metricID2Hash, lastWroteFamilyTime, familyTimes, clock, ops, expFamilies>>

\* faulty variant: the deferred send waits until the evictor receives
FlushReturnBlockingSend(t) ==
    /\ pc[t] = "f_ret"
    /\ evictNotifier.pc \in {"select", "none"}
    /\ flushFailed' = (flushFailed \/ loc[t].err # ErrNil)
    /\ LogFlush("data", loc[t].handed, loc[t].handedTagged, loc[t].err # ErrNil)
    /\ evictNotifier' = Notify(evictNotifier)
    /\ loc' = [loc EXCEPT ![t] = NoLoc]
    /\ tstores' = Collect(tstores, mstores, loc')
    /\ Goto(t, "idle")
    /\ UNCHANGED <<hash2MStore, metricID2Hash, mstores, size, lastWroteFamilyTime, familyTimes, clock,
                   ops, expFamilies>>

\* the deferred non-blocking send to the evictor, and the return
FlushReturn(t) ==
    /\ pc[t] = "f_ret"
    /\ flushFailed' = (flushFailed \/ loc[t].err # ErrNil)
    /\ LogFlush("data", loc[t].handed, loc[t].handedTagged, loc[t].err # ErrNil)
    /\ evictNotifier' = Notify(evictNotifier)
    /\ loc' = [loc EXCEPT ![t] = NoLoc]
    /\ tstores' = Collect(tstores, mstores, loc')
    /\ Goto(t, "idle")
    /\ UNCHANGED <<hash2MStore, metricID2Hash, mstores, size, lastWroteFamilyTime, familyTimes, clock,
                   ops, expFamilies>>

---------------------------------------------------------------------------
(* memoryDatabase.ResetMetricStore and metricStore.ResetVersion *)

\* a call of ResetMetricStore(metricName): md.getMStore(metricName)
ResetStart(t, m) ==
    /\ EndsPass
    /\ Admit(t)
    /\ ~BucketLocked(BucketOf(m))
    /\ ops' = ops - 1
    /\ IF hash2MStore[m] = NoRef
       THEN /\ loc' = [loc EXCEPT ![t] = [NoLoc EXCEPT !.op = "reset", !.m = m,
                                                        !.err = ErrNotExist]]
            /\ Goto(t, "r_ret")
       ELSE /\ loc' = [loc EXCEPT ![t] = [NoLoc EXCEPT !.op = "reset", !.m = m,
                                                        !.ms = hash2MStore[m]]]
            /\ Goto(t, "r_check")
    /\ UNCHANGED <<hash2MStore, metricID2Hash, mstores, tstores, size, lastWroteFamilyTime, familyTimes, clock,
                   expFamilies>>

\* ResetVersion: the first check of the immutable slot, without the lock
ResetCheck(t) ==
    /\ NoHistory
    /\ pc[t] = "r_check"
    /\ IF HasImmutable(mstores[loc[t].ms])
       THEN /\ loc' = [loc EXCEPT ![t].err = ErrResetVersionUnavailable]
            /\ Goto(t, "r_ret")
       ELSE /\ UNCHANGED loc
            /\ Goto(t, "r_lock")
    /\ UNCHANGED <<hash2MStore, metricID2Hash, mstores, tstores, size, lastWroteFamilyTime, familyTimes, clock,
                   ops, expFamilies>>

\* faulty variant: the fresh mutable index inherits the series-id counter
PromoteKeepCounter(ms, version) ==
    [ms EXCEPT !.immutable = ms.mutable,
               !.mutable = [newTagIndex(version) EXCEPT !.idCounter = ms.mutable.idCounter],
               !.size = TagIndexMemSize(newTagIndex(version), <<>>),
               !.resets = @ + 1,
               !.lift = IF @ = "rejected" THEN "reset" ELSE "none"]

\* the metric store after the locked part of ResetVersion has promoted the mutable index
Promote(ms, version) ==
    [ms EXCEPT !.immutable = ms.mutable,
               !.mutable = newTagIndex(version),
               !.size = TagIndexMemSize(newTagIndex(version), <<>>),
               !.resets = @ + 1,
               !.lift = IF @ = "rejected" THEN "reset" ELSE "none"]

\* faulty variant: no second check of the immutable slot under the lock
ResetLockedNoDoubleCheck(t) ==
    /\ NoHistory
    /\ pc[t] = "r_lock"
    /\ mstores' = [mstores EXCEPT ![loc[t].ms] = Promote(@, clock)]
    /\ clock' = clock + 1
    /\ loc' = [loc EXCEPT ![t].created = TagIndexMemSize(newTagIndex(clock), <<>>)]
    /\ Goto(t, "r_ret")
    /\ UNCHANGED <<hash2MStore, metricID2Hash, tstores, size, lastWroteFamilyTime, familyTimes, ops, expFamilies>>

\* ResetVersion under the write lock: the double check, then the promotion
ResetLocked(t) ==
    /\ NoHistory
    /\ pc[t] = "r_lock"
    /\ IF HasImmutable(mstores[loc[t].ms])
       THEN /\ loc' = [loc EXCEPT ![t].err = ErrResetVersionUnavailable]
            /\ UNCHANGED <<mstores, clock>>
       ELSE /\ mstores' = [mstores EXCEPT ![loc[t].ms] = Promote(@, clock)]
            /\ clock' = clock + 1
            /\ loc' = [loc EXCEPT ![t].created = TagIndexMemSize(newTagIndex(clock), <<>>)]
    /\ Goto(t, "r_ret")
    /\ UNCHANGED <<hash2MStore, metricID2Hash, tstores, size, lastWroteFamilyTime, familyTimes, ops, expFamilies>>

\* md.size.Add(createdSize); return err
ResetReturn(t) ==
    /\ NoHistory
    /\ pc[t] = "r_ret"
    /\ size' = size + loc[t].created
    /\ loc' = [loc EXCEPT ![t] = NoLoc]
    /\ Goto(t, "idle")
    /\ UNCHANGED <<hash2MStore, metricID2Hash, mstores, tstores, lastWroteFamilyTime, familyTimes, clock, ops,
                   expFamilies>>

---------------------------------------------------------------------------
(* setLimitations: mStore.SetMaxTagsLimit(limit) for a metric that exists *)

SetMaxTagsLimit(t, m, limit) ==
    /\ EndsPass
    /\ Admit(t)
    /\ ~BucketLocked(BucketOf(m))
    /\ hash2MStore[m] # NoRef
    /\ mstores[hash2MStore[m]].maxTagsLimit # limit
    /\ ops' = ops - 1
    /\ mstores' = [mstores EXCEPT ![hash2MStore[m]].maxTagsLimit = limit,
                                  ![hash2MStore[m]].lift = IF @ = "reset" THEN "none" ELSE @]
    /\ UNCHANGED <<hash2MStore, metricID2Hash, tstores, size, lastWroteFamilyTime, familyTimes, clock, pc, loc,
                   apart, expFamilies>>

---------------------------------------------------------------------------
(* memoryDatabase.FlushForwardIndexTo and FlushInvertedIndexTo: a loop over the
   buckets and their metric stores, read only; a flusher error ends the loop *)

FlushForwardIndexTo(t, flushErr) ==
    /\ Admit(t)
    /\ ops' = ops - 1
    /\ LogFlush("fwd", UNION {MStoreFlushForwardIndexTo(mstores[ref]) : ref \in LiveMStores},
                {}, flushErr)
    /\ UNCHANGED <<hash2MStore, metricID2Hash, mstores, tstores, size, lastWroteFamilyTime, familyTimes, clock,
                   pc, loc, apart, expFamilies, flushFailed, evictNotifier>>

FlushInvertedIndexTo(t, flushErr) ==
    /\ Admit(t)
    /\ ops' = ops - 1
    /\ LogFlush("inv", UNION {MStoreFlushInvertedIndexTo(mstores[ref]) : ref \in LiveMStores},
                {}, flushErr)
    /\ UNCHANGED <<hash2MStore, metricID2Hash, mstores, tstores, size, lastWroteFamilyTime, familyTimes, clock,
                   pc, loc, apart, expFamilies, flushFailed, evictNotifier>>

---------------------------------------------------------------------------
(* memoryDatabase.evictor: a sweep over all buckets after a notification, taken
   as one step between the operations; expired are the series not written for a
   while *)

evictor(expired) ==
    /\ evictNotifier.pc = "e_snapshot" /\ evictNotifier.b = 0
    /\ Quiescent
    /\ LET r == [ref \in LiveMStores |-> MStoreEvict(mstores[ref], tstores, expired)]
           after == [ref \in DOMAIN mstores |->
                        IF ref \in LiveMStores THEN r[ref].ms ELSE mstores[ref]]
           empty == {ref \in LiveMStores : MStoreIsEmpty(after[ref])}
       IN /\ mstores' = after
          /\ hash2MStore' = [m \in DOMAIN hash2MStore |->
                                IF hash2MStore[m] \in empty THEN NoRef ELSE hash2MStore[m]]
          /\ metricID2Hash' = metricID2Hash \ {after[ref].metricID : ref \in empty}
          /\ size' = size - SumOver([ref \in LiveMStores |-> r[ref].evictedSize], LiveMStores)
                           - SumOver([ref \in empty |-> MStoreMemSize(after[ref], tstores)], empty)
          /\ tstores' = Collect(tstores, after, loc)
    /\ evictNotifier' = NewEvictor("select")
    /\ UNCHANGED <<lastWroteFamilyTime, familyTimes, clock, pc, loc, ops, apart, expFamilies,
                   flushFailed, passLog>>

---------------------------------------------------------------------------
(* memoryDatabase.evictor as a goroutine of its own: its steps interleave with
   the steps of the operations *)

\* what no step of the evictor changes
EvictorFrame ==
    UNCHANGED <<lastWroteFamilyTime, familyTimes, clock, pc, loc, ops, apart, expFamilies,
                flushFailed, passLog>>

\* go md.evictor(ctx): the goroutine reaches its select
EvictorStart ==
    /\ evictNotifier.pc = "start"
    /\ evictNotifier' = [evictNotifier EXCEPT !.pc = "select"]
    /\ UNCHANGED <<hash2MStore, metricID2Hash, mstores, tstores, size>>
    /\ EvictorFrame

\* case <-ctx.Done(): return
EvictorExit ==
    /\ evictNotifier.pc = "select"
    /\ tasks.ctx # "live"
    /\ evictNotifier' = [evictNotifier EXCEPT !.pc = "exited"]
    /\ UNCHANGED <<hash2MStore, metricID2Hash, mstores, tstores, size>>
    /\ EvictorFrame

\* the loop of the sweep over the buckets: bucket.allMetricStores() of the next
\* bucket, or the return to the select after the last one
EvictSnapshot ==
    /\ evictNotifier.pc = "e_snapshot"
    /\ IF evictNotifier.b = shardingCountOfMStores
       THEN evictNotifier' = [NewEvictor("select") EXCEPT !.owed = evictNotifier.owed]
       ELSE LET stores == {<<m, hash2MStore[m]>> :
                              m \in {x \in DOMAIN hash2MStore :
                                        BucketOf(x) = evictNotifier.b /\ hash2MStore[x] # NoRef}}
            IN evictNotifier' = [evictNotifier EXCEPT
                                    !.b = @ + 1, !.todo = stores,
                                    !.pc = IF stores = {} THEN "e_snapshot" ELSE "e_first",
                                    !.owed = IF evictNotifier.b = 0 THEN FALSE ELSE @]
    /\ UNCHANGED <<hash2MStore, metricID2Hash, mstores, tstores, size>>
    /\ EvictorFrame

\* the evictor goes on with the next metric store of the bucket, or with the next bucket
NextMStore(ev) ==
    [ev EXCEPT !.pc = IF ev.todo = {} THEN "e_snapshot" ELSE "e_first",
               !.m = "", !.ms = NoRef, !.evictList = {}, !.evictedSize = 0, !.kept = {}]

\* mStore.Evict() of the next metric store: the first check
EvictFirstCheck(m, ref) ==
    /\ evictNotifier.pc = "e_first"
    /\ <<m, ref>> \in evictNotifier.todo
    /\ evictNotifier' = [evictNotifier EXCEPT
                            !.pc = "e_second", !.todo = @ \ {<<m, ref>>}, !.m = m, !.ms = ref,
                            !.evictList = MStoreEvictFirstCheck(mstores[ref], tstores)]
    /\ UNCHANGED <<hash2MStore, metricID2Hash, mstores, tstores, size>>
    /\ EvictorFrame

\* mStore.Evict(): the double check and the removal; then md.size.Sub(evictedSize)
EvictDoubleCheck ==
    /\ evictNotifier.pc = "e_second"
    /\ LET r == MStoreEvictDoubleCheck(mstores[evictNotifier.ms], tstores, evictNotifier.evictList)
       IN /\ mstores' = [mstores EXCEPT ![evictNotifier.ms] = r.ms]
          /\ tstores' = Collect(tstores, mstores', loc)
          /\ size' = size - r.evictedSize
          /\ evictNotifier' = [evictNotifier EXCEPT !.pc = "e_isEmpty", !.evictList = {},
                                                    !.evictedSize = r.evictedSize,
                                                    !.kept = r.kept]
    /\ UNCHANGED <<hash2MStore, metricID2Hash>>
    /\ EvictorFrame

\* if mStore.IsEmpty(), without the bucket lock
EvictIsEmpty ==
    /\ evictNotifier.pc = "e_isEmpty"
    /\ evictNotifier' = IF MStoreIsEmpty(mstores[evictNotifier.ms])
                        THEN [evictNotifier EXCEPT !.pc = "e_lock"]
                        ELSE NextMStore(evictNotifier)
    /\ UNCHANGED <<hash2MStore, metricID2Hash, mstores, tstores, size>>
    /\ EvictorFrame

\* bucket.rwLock.Lock() and the second mStore.IsEmpty(): when the store is not
\* empty now, md.size.Sub(mStore.MemSize()) and bucket.rwLock.Unlock() follow
EvictLock ==
    /\ evictNotifier.pc = "e_lock"
    /\ IF MStoreIsEmpty(mstores[evictNotifier.ms])
       THEN /\ evictNotifier' = [evictNotifier EXCEPT !.pc = "e_delete"]
            /\ UNCHANGED size
       ELSE /\ evictNotifier' = NextMStore(evictNotifier)
            /\ size' = size - MStoreMemSize(mstores[evictNotifier.ms], tstores)
    /\ UNCHANGED <<hash2MStore, metricID2Hash, mstores, tstores>>
    /\ EvictorFrame

\* delete(bucket.hash2MStore, metricHashes[idx]) with metricID2Hash.Delete, then
\* md.size.Sub(mStore.MemSize()) and bucket.rwLock.Unlock()
EvictDelete ==
    /\ evictNotifier.pc = "e_delete"
    /\ hash2MStore' = [hash2MStore EXCEPT ![evictNotifier.m] = NoRef]
    /\ metricID2Hash' = metricID2Hash \ {mstores[evictNotifier.ms].metricID}
    /\ size' = size - MStoreMemSize(mstores[evictNotifier.ms], tstores)
    /\ evictNotifier' = NextMStore(evictNotifier)
    /\ UNCHANGED <<mstores, tstores>>
    /\ EvictorFrame

\* time passes: a series that is not in use gets older than the eviction horizon
\* (the horizon is longer than one Evict call: no series expires between the first
\* and the double check)
Expire(ref) ==
    /\ ref \in DOMAIN tstores
    /\ ~TStoreIsExpired(tstores[ref])
    /\ evictNotifier.pc # "e_second"
    /\ tstores' = [tstores EXCEPT ![ref].expired = TRUE]
    /\ UNCHANGED <<hash2MStore, metricID2Hash, mstores, size, evictNotifier>>
    /\ EvictorFrame

---------------------------------------------------------------------------
(* metricStore.GetFieldIDOrGenerate, called by goroutines on one metric store *)

\* a call of GetFieldIDOrGenerate(fieldName, fieldType, generator): the load of the
\* field metas and the checks made on it without the lock
GetFieldIDOrGenerate(t, ref, fieldName, fieldType) ==
    /\ NoHistory
    /\ Admit(t)
    /\ ops' = ops - 1
    /\ LET fast == FastPath(mstores[ref].fieldsMetas, fieldName, fieldType)
           call == [NoLoc EXCEPT !.op = "field", !.ms = ref, !.fieldName = fieldName,
                                 !.fieldType = fieldType]
       IN IF fast.done
          THEN /\ loc' = [loc EXCEPT ![t] = [call EXCEPT !.fieldID = fast.id, !.err = fast.err]]
               /\ Goto(t, "g_ret")
          ELSE /\ loc' = [loc EXCEPT ![t] = call]
               /\ Goto(t, "g_lock")
    /\ UNCHANGED <<hash2MStore, metricID2Hash, mstores, tstores, size, lastWroteFamilyTime, familyTimes, clock,
                   expFamilies>>

\* the part of GetFieldIDOrGenerate that holds ms.mux
GetFieldIDOrGenerateLocked(t, genErr) ==
    /\ NoHistory
    /\ pc[t] = "g_lock"
    /\ LET slow == SlowPath(mstores[loc[t].ms].fieldsMetas, loc[t].fieldName,
                            loc[t].fieldType, genErr)
       IN /\ mstores' = [mstores EXCEPT ![loc[t].ms].fieldsMetas = slow.fmList]
          /\ loc' = [loc EXCEPT ![t].fieldID = slow.id, ![t].err = slow.err]
    /\ Goto(t, "g_ret")
    /\ UNCHANGED <<hash2MStore, metricID2Hash, tstores, size, lastWroteFamilyTime, familyTimes, clock, ops,
                   expFamilies>>

\* the caller has the result
GetFieldIDOrGenerateReturn(t) ==
    /\ NoHistory
    /\ pc[t] = "g_ret"
    /\ loc' = [loc EXCEPT ![t] = NoLoc]
    /\ Goto(t, "idle")
    /\ UNCHANGED <<hash2MStore, metricID2Hash, mstores, tstores, size, lastWroteFamilyTime, familyTimes, clock,
                   ops, expFamilies>>

---------------------------------------------------------------------------
(* Suggestions of a metric store. A string is the sequence of its characters. *)

\* strings.HasPrefix
HasPrefix(str, prefix) ==
    /\ Len(prefix) <= Len(str)
    /\ SubSeq(str, 1, Len(prefix)) = prefix

\* the entry sets of a tag index, in the order of GetTagKVEntrySets: a tag key with
\* its tag values, no key twice
TagIndexes ==
    {es \in UNION {[1..n -> [key : TagKeyStrs, values : (SUBSET TagValueStrs) \ {{}}]] :
                      n \in 0..MaxEntrySets} :
        \A i, j \in DOMAIN es : i # j => es[i].key # es[j].key}

\* prefixSearchTagKey: goes through the entry sets until tagKeysMap holds limit keys
RECURSIVE prefixSearchTagKey(_, _, _, _)
prefixSearchTagKey(entrySets, tagKeyPrefix, limit, tagKeysMap) ==
    IF entrySets = <<>> \/ Cardinality(tagKeysMap) >= limit THEN tagKeysMap
    ELSE prefixSearchTagKey(Tail(entrySets), tagKeyPrefix, limit,
                            IF HasPrefix(Head(entrySets).key, tagKeyPrefix)
                            THEN tagKeysMap \cup {Head(entrySets).key}
                            ELSE tagKeysMap)

\* prefixSearchTagValue: goes through the entry sets until tagValuesMap holds limit
\* values, the limit is tested before an entry set and not between its values
RECURSIVE prefixSearchTagValue(_, _, _, _)
prefixSearchTagValue(entrySets, tagValuePrefix, limit, tagValuesMap) ==
    IF entrySets = <<>> \/ Cardinality(tagValuesMap) >= limit THEN tagValuesMap
    ELSE prefixSearchTagValue(Tail(entrySets), tagValuePrefix, limit,
             tagValuesMap \cup {v \in Head(entrySets).values : HasPrefix(v, tagValuePrefix)})

\* the keys of a map in the orders a range loop may visit them
RangeOrders(map) ==
    {list \in [1..Cardinality(map) -> map] :
        \A i, j \in DOMAIN list : i # j => list[i] # list[j]}

\* the call returns list
Suggested(op, tagKey, prefix, limit, list) ==
    suggest' = [suggest EXCEPT !.op = op, !.tagKey = tagKey, !.prefix = prefix,
                               !.limit = limit, !.result = list]

DatabaseUnchanged ==
    UNCHANGED <<hash2MStore, metricID2Hash, mstores, tstores, size, lastWroteFamilyTime, familyTimes, clock,
                pc, loc, ops, serial, expFamilies, flushFailed, passLog, evictNotifier>>

\* metricStore.SuggestTagKeys
SuggestTagKeys(tagKeyPrefix, limit) ==
    /\ IF limit <= 0 THEN Suggested("SuggestTagKeys", <<>>, tagKeyPrefix, limit, <<>>)
       ELSE LET inMutable == prefixSearchTagKey(suggest.mutable, tagKeyPrefix, limit, {})
                tagKeysMap == IF suggest.hasImmutable
                              THEN prefixSearchTagKey(suggest.immutable, tagKeyPrefix, limit,
                                                      inMutable)
                              ELSE inMutable
            IN  \E tagKeysList \in RangeOrders(tagKeysMap) :
                    Suggested("SuggestTagKeys", <<>>, tagKeyPrefix, limit, tagKeysList)
    /\ DatabaseUnchanged
    /\ UNCHANGED <<fieldWrites, cm, rp, shard, tasks, taskManager>>

\* metricStore.SuggestTagValues
SuggestTagValues(tagKey, tagValuePrefix, limit) ==
    /\ IF limit <= 0 THEN Suggested("SuggestTagValues", tagKey, tagValuePrefix, limit, <<>>)
       ELSE LET capped == IF limit > MaxSuggestions THEN MaxSuggestions ELSE limit
                inMutable == prefixSearchTagValue(suggest.mutable, tagValuePrefix, capped, {})
                tagValuesMap == IF suggest.hasImmutable
                                THEN prefixSearchTagValue(suggest.immutable, tagValuePrefix,
                                                          capped, inMutable)
                                ELSE inMutable
            IN  \E tagValuesList \in RangeOrders(tagValuesMap) :
                    Suggested("SuggestTagValues", tagKey, tagValuePrefix, limit, tagValuesList)
    /\ DatabaseUnchanged
    /\ UNCHANGED <<fieldWrites, cm, rp, shard, tasks, taskManager>>

---------------------------------------------------------------------------
(* Values of a field store. A segment store holds its family time, its    *)
(* aggregate function and the values of its slots.                        *)

\* the aggregate function merges a written value into the value of a slot
AggMerge(aggFunc, old, value) ==
    CASE aggFunc = "Sum" -> old + value
      [] aggFunc = "Min" -> IF value < old THEN value ELSE old
      [] aggFunc = "Max" -> IF value > old THEN value ELSE old
      [] aggFunc = "First" -> old
      [] aggFunc = "Last" -> value

newSimpleFieldStore(familyTime, aggFunc) ==
    [familyTime |-> familyTime, aggFunc |-> aggFunc, slots |-> <<>>]

\* sStore.WriteFloat: merges the value into the slot of the write context
WriteFloat(sStore, value, slotIndex) ==
    [sStore EXCEPT !.slots =
        IF slotIndex \in DOMAIN sStore.slots
        THEN [sStore.slots EXCEPT ![slotIndex] = AggMerge(sStore.aggFunc, @, value)]
        ELSE (slotIndex :> value) @@ sStore.slots]

\* fieldStore.Write: the new field store and the written size; a field that is
\* not a Sum field is logged and not written
Write(fs, f, writeCtx) ==
    IF f.kind = "Sum"
    THEN LET ok == GetSStoreOk(fs, writeCtx.familyTime)
             fs2 == IF ok THEN fs
                    ELSE insertSStore(fs, newSimpleFieldStore(writeCtx.familyTime, "Sum"))
             idx == GetSStoreIdx(fs2, writeCtx.familyTime) + 1
         IN  [fs |-> [fs2 EXCEPT !.nodes[idx] = WriteFloat(@, f.value, writeCtx.slotIndex)],
              writtenSize |-> IF ok THEN 0
                              ELSE (fs2.cap - fs.cap) * 8 + SStoreMemSize(fs2.nodes[idx])]
    ELSE [fs |-> fs, writtenSize |-> 0]

\* sStore.SlotRange(): the first and the last slot written, an error when no slot
\* holds a value
SlotRange(sStore) ==
    IF DOMAIN sStore.slots = {}
    THEN [startSlot |-> 0, endSlot |-> 0, err |-> TRUE]
    ELSE [startSlot |-> CHOOSE x \in DOMAIN sStore.slots : \A y \in DOMAIN sStore.slots : x <= y,
          endSlot |-> CHOOSE x \in DOMAIN sStore.slots : \A y \in DOMAIN sStore.slots : x >= y,
          err |-> FALSE]

\* fieldStore.TimeRange(interval): the loop over the first n segments, which starts
\* from the zero values of timeRange and ok
RECURSIVE TimeRangeLoop(_, _, _)
TimeRangeLoop(nodes, n, interval) ==
    IF n = 0 THEN [Start |-> 0, End |-> 0, ok |-> FALSE]
    ELSE LET acc == TimeRangeLoop(nodes, n - 1, interval)
             r == SlotRange(nodes[n])
             startTime == nodes[n].familyTime + r.startSlot * interval
             endTime == nodes[n].familyTime + r.endSlot * interval
         IN IF r.err THEN acc
            ELSE [Start |-> IF acc.Start = 0 \/ startTime < acc.Start THEN startTime ELSE acc.Start,
                  End |-> IF acc.End = 0 \/ acc.End < endTime THEN endTime ELSE acc.End,
                  ok |-> TRUE]

TimeRange(fs, interval) == TimeRangeLoop(fs.nodes, Len(fs.nodes), interval)

\* a point of the field is written into the field store
WritePoint(value, familyTime, slotIndex) ==
    /\ fieldWrites.kind # "none"
    /\ Len(fieldWrites.points) < MaxPoints
    /\ LET w == Write(fieldWrites.fs, [kind |-> fieldWrites.kind, value |-> value],
                      [familyTime |-> familyTime, slotIndex |-> slotIndex])
       IN  fieldWrites' = [fieldWrites EXCEPT
                              !.fs = w.fs,
                              !.writtenSize = w.writtenSize,
                              !.points = Append(@, [value |-> value, familyTime |-> familyTime,
                                                    slotIndex |-> slotIndex])]
    /\ DatabaseUnchanged
    /\ UNCHANGED <<suggest, cm, rp, shard, tasks, taskManager>>

\* a call of FlushFieldTo(tableFlusher, familyTime) on the field store; bytesErr:
\* sStore.Bytes returns an error
FlushSegment(familyTime, bytesErr) ==
    /\ fieldWrites.kind # "none"
    /\ fieldWrites.flushes < MaxFieldFlushes
    /\ LET r == FlushFieldTo(fieldWrites.fs, familyTime, bytesErr)
       IN  fieldWrites' = [fieldWrites EXCEPT
                              !.fs = r.fs,
                              !.flushes = @ + 1,
                              !.lastFlush = [familyTime |-> familyTime, bytesErr |-> bytesErr,
                                             flushedSize |-> r.flushedSize,
                                             flushField |-> r.flushField]]
    /\ DatabaseUnchanged
    /\ UNCHANGED <<suggest, cm, rp, shard, tasks, taskManager>>

---------------------------------------------------------------------------
(* ChannelManager and Channel: the channels by (database, shard), the    *)
(* replicators of a channel by target.  Channels and replicators are      *)
(* objects, told apart by their references.                               *)

\* a call of the channel manager is taken
Called == cm.calls > 0

\* the result of a CreateChannel call
CreateChannelReturns(database, numOfShard, shardID, err, ch) ==
    [op |-> "CreateChannel", no |-> cm.calls, database |-> database,
     numOfShard |-> numOfShard, shardID |-> shardID, err |-> err, ch |-> ch]

\* the call fails
CreateChannelFails(database, numOfShard, shardID) ==
    cm' = [cm EXCEPT !.calls = @ - 1, !.failed = TRUE,
                     !.last = CreateChannelReturns(database, numOfShard, shardID,
                                                   ErrShardConfigConflict, NoRef)]

\* the call returns the channel of (database, shardID)
CreateChannelFinds(database, numOfShard, shardID) ==
    LET ret == CreateChannelReturns(database, numOfShard, shardID, ErrNil,
                                    cm.channels[<<database, shardID>>])
    IN  cm' = [cm EXCEPT !.calls = @ - 1, !.last = ret, !.succeeded = @ \cup {ret}]

\* the call creates the channel of (database, shardID) and registers it, and the
\* number of shards of the database
CreateChannelCreates(database, numOfShard, shardID) ==
    LET ch == Len(cm.chans) + 1
        ret == CreateChannelReturns(database, numOfShard, shardID, ErrNil, ch)
    IN  cm' = [cm EXCEPT !.calls = @ - 1,
                         !.numOfShards[database] = numOfShard,
                         !.chans = Append(@, [database |-> database, shardID |-> shardID,
                                              replicators |-> <<>>]),
                         !.channels = (<<database, shardID>> :> ch) @@ @,
                         !.last = ret,
                         !.succeeded = @ \cup {ret}]

\* faulty variant: a channel that exists is returned before the number of shards is
\* compared with the one of the database
CreateChannelLooksUpFirst(database, numOfShard, shardID) ==
    /\ Called
    /\ IF shardID < 0 \/ shardID >= numOfShard
       THEN CreateChannelFails(database, numOfShard, shardID)
       ELSE IF <<database, shardID>> \in DOMAIN cm.channels
       THEN CreateChannelFinds(database, numOfShard, shardID)
       ELSE IF cm.numOfShards[database] \notin {0, numOfShard}
       THEN CreateChannelFails(database, numOfShard, shardID)
       ELSE CreateChannelCreates(database, numOfShard, shardID)
    /\ DatabaseUnchanged
    /\ UNCHANGED <<suggest, fieldWrites, rp, shard, tasks, taskManager>>

\* cm.CreateChannel(database, numOfShard, shardID): the shard is validated, then the
\* number of shards of the database; the channel of (database, shardID) is returned,
\* and created and registered with the number of shards if there is none
CreateChannel(database, numOfShard, shardID) ==
    /\ Called
    /\ IF \/ shardID < 0 \/ shardID >= numOfShard
          \/ cm.numOfShards[database] \notin {0, numOfShard}
       THEN CreateChannelFails(database, numOfShard, shardID)
       ELSE IF <<database, shardID>> \in DOMAIN cm.channels
       THEN CreateChannelFinds(database, numOfShard, shardID)
       ELSE CreateChannelCreates(database, numOfShard, shardID)
    /\ DatabaseUnchanged
    /\ UNCHANGED <<suggest, fieldWrites, rp, shard, tasks, taskManager>>

\* channel.Targets()
ChannelTargets(ch) == DOMAIN cm.chans[ch].replicators

\* GetOrCreateReplicator returns the replicator to goroutine t
ReturnReplicator(t, ch, target, replicator) ==
    [cm EXCEPT !.pc[t] = "idle",
               !.returned = @ \cup {[ch |-> ch, target |-> target, replicator |-> replicator]}]

\* channel.GetOrCreateReplicator(target): the replicator is loaded from the map of
\* the channel; if there is none the goroutine goes for the lock
GetOrCreateReplicator(t, ch, target) ==
    /\ Called
    /\ cm.pc[t] = "idle"
    /\ \A u \in Threads : u < t => cm.pc[u] # "idle"
    /\ LET called == [cm EXCEPT !.calls = @ - 1,
                                !.requested = @ \cup {[ch |-> ch, target |-> target]}]
       IN  IF target \in ChannelTargets(ch)
           THEN cm' = [ReturnReplicator(t, ch, target, cm.chans[ch].replicators[target])
                          EXCEPT !.calls = called.calls, !.requested = called.requested]
           ELSE cm' = [called EXCEPT !.pc[t] = "g_lock",
                                     !.loc[t] = [ch |-> ch, target |-> target]]
    /\ DatabaseUnchanged
    /\ UNCHANGED <<suggest, fieldWrites, rp, shard, tasks, taskManager>>

\* faulty variant: the map is not looked up again under the lock
GetOrCreateReplicatorLockedNoDoubleCheck(t) ==
    /\ cm.pc[t] = "g_lock"
    /\ LET ch == cm.loc[t].ch
           target == cm.loc[t].target
           replicator == cm.replicators + 1
       IN  cm' = [ReturnReplicator(t, ch, target, replicator)
                     EXCEPT !.replicators = replicator,
                            !.chans[ch].replicators = (target :> replicator) @@ @]
    /\ DatabaseUnchanged
    /\ UNCHANGED <<suggest, fieldWrites, rp, shard, tasks, taskManager>>

\* GetOrCreateReplicator under the lock of the channel: the map is looked up again,
\* and a replicator is created and stored if there is still none
GetOrCreateReplicatorLocked(t) ==
    /\ cm.pc[t] = "g_lock"
    /\ LET ch == cm.loc[t].ch
           target == cm.loc[t].target
           replicator == cm.replicators + 1
       IN  IF target \in ChannelTargets(ch)
           THEN cm' = [ReturnReplicator(t, ch, target, cm.chans[ch].replicators[target])
                          EXCEPT !.raced = TRUE]
           ELSE cm' = [ReturnReplicator(t, ch, target, replicator)
                          EXCEPT !.replicators = replicator,
                                 !.chans[ch].replicators = (target :> replicator) @@ @]
    /\ DatabaseUnchanged
    /\ UNCHANGED <<suggest, fieldWrites, rp, shard, tasks, taskManager>>

---------------------------------------------------------------------------
(* Replication of one channel to one target: the FanOutQueue of the      *)
(* channel, the replicator of the target with its stream, and the target. *)
(* Sequence numbers start at 1; a cursor of 0 stands for nothing yet.     *)

\* a channel with an empty queue, a replicator just created and a target that has
\* received nothing
NewReplication ==
    [state |-> "INIT",
     log |-> <<>>,             \* FanOutQueue: the payloads appended, appendSeq is its length
     consumerSeq |-> 0,        \* the cursor of the replicator in the queue
     sendSeq |-> 1,            \* the sequence the sender pulls next
     requests |-> <<>>,        \* the WriteRequests on the stream
     responses |-> <<>>,       \* the WriteResponses on the stream
     cursor |-> 0,             \* target: the highest sequence written
     persisted |-> 0,          \* target: the highest sequence persisted
     applied |-> <<>>,         \* target: the records written, in the order of the writes
     writeErr |-> ErrNil,      \* the result of the last Channel.Write
     faults |-> 0,             \* failed connections, broken streams and closes so far
     connected |-> FALSE,      \* history: the write service client has been created
     attempts |-> 0,           \* history: attempts to create the client that failed
     working |-> FALSE,        \* the stream factory and the stream never fail
     sent |-> <<>>,            \* history, of a working stream: the sequences sent
     deduped |-> FALSE,        \* history: the target has skipped a record
     resumed |-> FALSE]        \* history: a stream was opened after another had ended

Max(a, b) == IF a >= b THEN a ELSE b

appendSeq == Len(rp.log)

\* replicator.Pending(): the records of the queue the sender has not pulled yet. In
\* TestChannel_WriteSuccess it is 0 after the one Send while Recv has returned no
\* WriteResponse, in TestChannel_WriteFail it is 1 after one Write and no Send.
Pending == appendSeq - (rp.sendSeq - 1)

OnlyReplication ==
    /\ DatabaseUnchanged
    /\ UNCHANGED <<suggest, fieldWrites, cm, shard, tasks, taskManager>>

\* faulty variant: the writer is told that the target cannot be reached
ChannelWriteReportsTarget(payload) ==
    /\ rp.state \notin {"none", "CLOSED"}
    /\ appendSeq < MaxWrites
    /\ rp' = [rp EXCEPT !.log = Append(@, payload),
                        !.writeErr = IF rp.state = "STREAMING" THEN ErrNil ELSE ErrClient]
    /\ OnlyReplication

\* channel.Write(payload): returns after the append to the queue
ChannelWrite(payload) ==
    /\ rp.state \notin {"none", "CLOSED"}
    /\ appendSeq < MaxWrites
    /\ rp' = [rp EXCEPT !.log = Append(@, payload), !.writeErr = ErrNil]
    /\ OnlyReplication

\* INIT -> CONNECTING, and FAILED -> CONNECTING after the backoff
Connecting ==
    /\ rp.state \in {"INIT", "FAILED"}
    /\ rp' = [rp EXCEPT !.state = "CONNECTING"]
    /\ OnlyReplication

\* CONNECTING: CreateWriteServiceClient(target) succeeds or fails; after a failure
\* the replicator backs off and tries again
CreateWriteServiceClient(ok) ==
    /\ rp.state = "CONNECTING"
    /\ IF ok THEN rp' = [rp EXCEPT !.state = "SYNCING", !.connected = TRUE]
       ELSE /\ rp.faults < MaxFaults
            /\ rp' = [rp EXCEPT !.faults = @ + 1, !.attempts = @ + 1]
    /\ OnlyReplication

\* the stream opens: the sender starts behind the cursor
Streaming(consumerSeq) ==
    [rp EXCEPT !.state = "STREAMING",
               !.consumerSeq = consumerSeq,
               !.sendSeq = consumerSeq + 1,
               !.requests = <<>>,
               !.responses = <<>>,
               !.resumed = rp.faults > rp.attempts]

\* faulty variant: the cursor is set to the sequence the target reports
SyncingTakesRemote ==
    /\ rp.state = "SYNCING"
    /\ rp' = Streaming(rp.persisted)
    /\ OnlyReplication

\* faulty variant: the sender goes on where the sender of the last stream was
SyncingKeepsSendSeq ==
    /\ rp.state = "SYNCING"
    /\ rp' = [Streaming(Max(rp.consumerSeq, rp.persisted)) EXCEPT
                 !.sendSeq = Max(rp.sendSeq, Max(rp.consumerSeq, rp.persisted) + 1)]
    /\ OnlyReplication

\* SYNCING: Next(database, shard) returns the highest sequence persisted on the
\* target, consumerSeq = max(local, remote), then STREAMING
Syncing ==
    /\ rp.state = "SYNCING"
    /\ rp' = Streaming(Max(rp.consumerSeq, rp.persisted))
    /\ OnlyReplication

\* STREAMING, the sender: pulls the next record of the queue and sends it, while
\* the window of records not acknowledged is open
Send ==
    /\ rp.state = "STREAMING"
    /\ rp.sendSeq <= appendSeq
    /\ rp.sendSeq - rp.consumerSeq <= WindowSize
    /\ rp' = [rp EXCEPT !.requests = Append(@, [seq |-> rp.sendSeq,
                                                payload |-> rp.log[rp.sendSeq]]),
                        !.sendSeq = @ + 1,
                        !.sent = IF rp.working THEN Append(@, rp.sendSeq) ELSE @]
    /\ OnlyReplication

\* faulty variant: the target writes every record it receives
TargetWriteAll ==
    /\ rp.state = "STREAMING"
    /\ rp.requests # <<>>
    /\ LET req == Head(rp.requests)
       IN  rp' = [rp EXCEPT !.requests = Tail(@),
                            !.responses = Append(@, req.seq),
                            !.applied = Append(@, req),
                            !.cursor = Max(@, req.seq)]
    /\ OnlyReplication

\* the target receives a WriteRequest: it compares the sequence with its cursor,
\* skips the record or writes it, and acknowledges the sequence
TargetWrite ==
    /\ rp.state = "STREAMING"
    /\ rp.requests # <<>>
    /\ LET req == Head(rp.requests)
       IN  IF req.seq <= rp.cursor
           THEN rp' = [rp EXCEPT !.requests = Tail(@),
                                 !.responses = Append(@, req.seq),
                                 !.deduped = TRUE]
           ELSE rp' = [rp EXCEPT !.requests = Tail(@),
                                 !.responses = Append(@, req.seq),
                                 !.applied = Append(@, req),
                                 !.cursor = req.seq]
    /\ OnlyReplication

\* the target persists what it has written
TargetPersist(seq) ==
    /\ rp.state # "none"
    /\ seq > rp.persisted /\ seq <= rp.cursor
    /\ rp' = [rp EXCEPT !.persisted = seq]
    /\ OnlyReplication

\* faulty variant: the receiver takes the WriteResponse and leaves the cursor
ReceiveAckKeepsCursor ==
    /\ rp.state = "STREAMING"
    /\ rp.responses # <<>>
    /\ rp' = [rp EXCEPT !.responses = Tail(@)]
    /\ OnlyReplication

\* STREAMING, the receiver: a WriteResponse{ackSeq} arrives, Ack(consumer, ackSeq)
\* advances the cursor
ReceiveAck ==
    /\ rp.state = "STREAMING"
    /\ rp.responses # <<>>
    /\ rp' = [rp EXCEPT !.responses = Tail(@), !.consumerSeq = Head(rp.responses)]
    /\ OnlyReplication

\* a send or a receive fails: the stream is torn down with what is on it, the cursor
\* stays at the last ack, FAILED
StreamFails ==
    /\ rp.state \in {"SYNCING", "STREAMING"}
    /\ rp.faults < MaxFaults
    /\ rp' = [rp EXCEPT !.state = "FAILED", !.requests = <<>>, !.responses = <<>>,
                        !.faults = @ + 1]
    /\ OnlyReplication

\* channel.Close: the tasks of the replicator are cancelled, the records on the
\* stream are not acknowledged, the queue and the cursor stay on disk
Close ==
    /\ rp.state \notin {"none", "CLOSED"}
    /\ rp.faults < MaxFaults
    /\ rp' = [rp EXCEPT !.state = "CLOSED", !.requests = <<>>, !.responses = <<>>,
                        !.faults = @ + 1]
    /\ OnlyReplication

\* the channel and its replicator are created again over the queue on disk
Reopen ==
    /\ rp.state = "CLOSED"
    /\ rp' = [rp EXCEPT !.state = "INIT"]
    /\ OnlyReplication

---------------------------------------------------------------------------
(* shard.Flush: known by Test_Shard_Close_Flush_error only.  The memory    *)
(* database of the shard is a mock there: its flush methods return nil or  *)
(* an error.                                                                *)

OnlyShard ==
    /\ DatabaseUnchanged
    /\ UNCHANGED <<suggest, fieldWrites, cm, rp, tasks, taskManager>>

\* shard.IsFlushing()
IsFlushing == shard.isFlushing

\* Flush returns err: the deferred isFlushing.Store(false) runs
ShardFlushReturns(t, err) ==
    [shard EXCEPT !.isFlushing = FALSE, !.pc[t] = "idle", !.todo[t] = {}, !.ret[t].err = err]

\* a method of the memory database is called in the Flush of t
ShardCalls(t, sh) == [sh EXCEPT !.ret[t].called = TRUE]

\* faulty variant: Flush does not look at isFlushing
ShardFlushAlways(t) ==
    /\ shard.pc[t] = "idle"
    /\ shard.flushes < MaxFlushes
    /\ shard' = [shard EXCEPT !.flushes = @ + 1,
                              !.isFlushing = TRUE,
                              !.pc[t] = "forward",
                              !.ret[t] = [err |-> ErrNil, skipped |-> FALSE, called |-> FALSE]]
    /\ OnlyShard

\* shard.Flush(), its first step: isFlushing.CAS(false, true); nil is returned at once
\* when another flush is running
ShardFlush(t) ==
    /\ shard.pc[t] = "idle"
    /\ shard.flushes < MaxFlushes
    /\ IF shard.isFlushing
       THEN shard' = [shard EXCEPT !.flushes = @ + 1,
                                   !.ret[t] = [err |-> ErrNil, skipped |-> TRUE, called |-> FALSE]]
       ELSE shard' = [shard EXCEPT !.flushes = @ + 1,
                                   !.isFlushing = TRUE,
                                   !.pc[t] = "forward",
                                   !.ret[t] = [err |-> ErrNil, skipped |-> FALSE, called |-> FALSE]]
    /\ OnlyShard

\* memDB.FlushForwardIndexTo returns err
ShardFlushForwardIndex(t, err) ==
    /\ shard.pc[t] = "forward"
    /\ shard' = ShardCalls(t, IF err # ErrNil THEN ShardFlushReturns(t, err)
                              ELSE [shard EXCEPT !.pc[t] = "inverted"])
    /\ OnlyShard

\* memDB.FlushInvertedIndexTo returns err
ShardFlushInvertedIndex(t, err) ==
    /\ shard.pc[t] = "inverted"
    /\ shard' = ShardCalls(t, IF err # ErrNil THEN ShardFlushReturns(t, err)
                              ELSE [shard EXCEPT !.pc[t] = "families"])
    /\ OnlyShard

\* memDB.Families() returns families
ShardFamilies(t, families) ==
    /\ shard.pc[t] = "families"
    /\ shard' = ShardCalls(t, [shard EXCEPT !.pc[t] = "data", !.todo[t] = families])
    /\ OnlyShard

\* the next family of the loop: GetOrCreateSegment, GetDataFamily or
\* memDB.FlushFamilyTo returns err
ShardFlushFamily(t, familyTime, err) ==
    /\ shard.pc[t] = "data"
    /\ familyTime \in shard.todo[t]
    /\ shard' = ShardCalls(t, IF err # ErrNil THEN ShardFlushReturns(t, err)
                              ELSE [shard EXCEPT !.todo[t] = @ \ {familyTime}])
    /\ OnlyShard

\* the loop has ended: Flush returns nil
ShardFlushDone(t) ==
    /\ shard.pc[t] = "data"
    /\ shard.todo[t] = {}
    /\ shard' = ShardFlushReturns(t, ErrNil)
    /\ OnlyShard

---------------------------------------------------------------------------
(* Specifications *)

InitDatabase(metrics, n, oneAtATime, ev) ==
    /\ serial = oneAtATime
    /\ hash2MStore = [m \in metrics |-> NoRef]
    /\ metricID2Hash = {}
    /\ mstores = <<>>
    /\ tstores = <<>>
    /\ size = 0
    /\ lastWroteFamilyTime = 0
    /\ familyTimes = {}
    /\ clock = 1
    /\ pc = [t \in Threads |-> "idle"]
    /\ loc = [t \in Threads |-> NoLoc]
    /\ ops = n
    /\ expFamilies = {}
    /\ flushFailed = FALSE
    /\ passLog = <<>>
    /\ evictNotifier = ev

\* an empty memory database: with one operation at a time its evictor waits in the
\* select, and its sweeps are taken as one step; with interleaved goroutines no
\* evictor runs
InitState(metrics, n, oneAtATime) ==
    InitDatabase(metrics, n, oneAtATime, NewEvictor(IF oneAtATime THEN "select" ELSE "none"))

Init == InitState(Metrics, MaxConcOps, FALSE) /\ suggest = NoSuggest /\ fieldWrites = NoFieldWrites /\ cm = NoManager /\ rp = NoReplication /\ shard = NoShard /\ tasks = NoTasks /\ taskManager = NoTaskManager

InitSeq == InitState(Metrics, MaxSeqOps, TRUE) /\ suggest = NoSuggest /\ fieldWrites = NoFieldWrites /\ cm = NoManager /\ rp = NoReplication /\ shard = NoShard /\ tasks = NoTasks /\ taskManager = NoTaskManager

\* the families of the calls: family 0, which the zero value of lastWroteFamilyTime
\* stands for, and one other family
CallFamilies == {0, 1}

Step(t) ==
    \/ \E m \in DOMAIN hash2MStore, tg \in TagSets, ft \in CallFamilies : WriteStart(t, m, tg, ft)
    \/ WriteIsFull(t)
    \/ WriteGetTStore(t)
    \/ WriteCreateTStore(t)
    \/ WriteTStore(t)
    \/ WriteSwap(t)
    \/ WriteStore(t)
    \/ WriteReturn(t)
    \/ \E ft \in CallFamilies : FlushStart(t, ft)
    \/ FlushStoreZero(t)
    \/ FlushSnapshot(t)
    \/ \E ref \in DOMAIN mstores : FlushMutable(t, ref)
    \/ \E flushErr \in BOOLEAN : FlushImmutable(t, flushErr)
    \/ FlushReturn(t)
    \/ \E m \in DOMAIN hash2MStore : ResetStart(t, m)
    \/ ResetCheck(t)
    \/ ResetLocked(t)
    \/ ResetReturn(t)
    \/ \E m \in DOMAIN hash2MStore, limit \in TagLimits : SetMaxTagsLimit(t, m, limit)

Next == \E t \in Threads : Step(t)

\* goroutines interleave
Spec == Init /\ [][Next]_vars

\* the operations of the goroutines, the index flushes of a flush pass and the
\* sweeps of the evictor
NextSeq ==
    \/ Next
    \/ \E t \in Threads, flushErr \in BOOLEAN : FlushForwardIndexTo(t, flushErr)
    \/ \E t \in Threads, flushErr \in BOOLEAN : FlushInvertedIndexTo(t, flushErr)
    \/ \E expired \in SUBSET TagSets : evictor(expired)

\* one operation at a time
SpecSeq == InitSeq /\ [][NextSeq]_vars

\* one operation at a time, on two metrics
InitTwo == InitState(TwoMetrics, MaxTwoOps, TRUE) /\ suggest = NoSuggest /\ fieldWrites = NoFieldWrites /\ cm = NoManager /\ rp = NoReplication /\ shard = NoShard /\ tasks = NoTasks /\ taskManager = NoTaskManager

SpecTwo == InitTwo /\ [][NextSeq]_vars

\* the operations of one goroutine and the evictor goroutine, which has just
\* been started
InitEvict ==
    /\ InitDatabase(Metrics, MaxEvictOps, TRUE, NewEvictor("start"))
    /\ suggest = NoSuggest /\ fieldWrites = NoFieldWrites /\ cm = NoManager
    /\ rp = NoReplication /\ shard = NoShard /\ tasks = NoTasks /\ taskManager = NoTaskManager

EvictorStep ==
    \/ EvictorStart
    \/ EvictSnapshot
    \/ \E m \in DOMAIN hash2MStore, ref \in DOMAIN mstores : EvictFirstCheck(m, ref)
    \/ EvictDoubleCheck
    \/ EvictIsEmpty
    \/ EvictLock
    \/ EvictDelete

NextEvict ==
    \/ Next
    \/ EvictorStep
    \/ EvictorExit
    \/ \E ref \in DOMAIN tstores : Expire(ref)

\* the evictor interleaves with the operations
SpecEvict == InitEvict /\ [][NextEvict]_vars

InitEvictFair ==
    /\ InitDatabase(Metrics, MaxFairOps, TRUE, NewEvictor("start"))
    /\ suggest = NoSuggest /\ fieldWrites = NoFieldWrites /\ cm = NoManager
    /\ rp = NoReplication /\ shard = NoShard /\ tasks = NoTasks /\ taskManager = NoTaskManager

\* the steps of a goroutine inside a call of Write or FlushFamilyTo
Running(t) ==
    \/ WriteIsFull(t)
    \/ WriteGetTStore(t)
    \/ WriteCreateTStore(t)
    \/ WriteTStore(t)
    \/ WriteSwap(t)
    \/ WriteStore(t)
    \/ WriteReturn(t)
    \/ FlushStoreZero(t)
    \/ FlushSnapshot(t)
    \/ \E ref \in DOMAIN mstores : FlushMutable(t, ref)
    \/ \E flushErr \in BOOLEAN : FlushImmutable(t, flushErr)
    \/ FlushReturn(t)

\* the scheduler lets the goroutine that is in a call (one call runs at a time),
\* and the evictor goroutine, run whenever they can take a step; no call need be
\* made and the context need not be cancelled
FairEvict == WF_vars(\E t \in Threads : Running(t)) /\ WF_vars(EvictorStep)

SpecEvictFair == InitEvictFair /\ [][NextEvict]_vars /\ FairEvict

\* concurrent first writes: two goroutines, getOrCreateMStore in its two lock
\* regions, and the evictor goroutine
InitCreate ==
    /\ InitDatabase(Metrics, MaxCreateOps, FALSE, NewEvictor("start"))
    /\ suggest = NoSuggest /\ fieldWrites = NoFieldWrites /\ cm = NoManager
    /\ rp = NoReplication /\ shard = NoShard /\ tasks = NoTasks /\ taskManager = NoTaskManager

NextCreate ==
    \/ \E t \in Threads, m \in DOMAIN hash2MStore, tg \in TagSets, ft \in CallFamilies :
           GetMStoreByMetricHash(t, m, tg, ft)
    \/ \E t \in Threads : GetOrCreateMStoreLocked(t)
    \/ \E t \in Threads, ft \in CallFamilies : FlushStart(t, ft)
    \/ \E t \in Threads : Running(t)
    \/ EvictorStep
    \/ \E ref \in DOMAIN tstores : Expire(ref)

SpecCreate == InitCreate /\ [][NextCreate]_vars

----------------------------------------------------------------------------
(* intermediateTask: Process submits the task, Receive takes the results of  *)
(* the leaf tasks. The task context counts the results it waits for.         *)

OnlyTaskManager ==
    /\ DatabaseUnchanged
    /\ UNCHANGED <<suggest, fieldWrites, cm, rp, shard, tasks>>

\* intermediateTask.Process of a request whose plan names this node:
\* newTaskContext(taskID, .., intermediate.NumOfTask, ..) and taskManager.Submit
Process(numOfTask) ==
    /\ "pc" \in DOMAIN taskManager
    /\ ~taskManager.submitted
    /\ taskManager' = [taskManager EXCEPT !.submitted = TRUE, !.held = TRUE,
                                          !.expectResults = numOfTask, !.leafs = numOfTask]
    /\ OnlyTaskManager

\* a call of Receive(resp): taskCtx := p.taskManager.Get(resp.TaskID), return nil
\* when there is none. While the manager holds the task, each of its leaf tasks
\* sends one result
ReceiveGet(t, taskID) ==
    /\ "pc" \in DOMAIN taskManager
    /\ taskManager.pc[t] = "idle"
    /\ taskManager.calls > 0
    /\ (taskID = 1 /\ taskManager.held) => taskManager.leafs > 0
    /\ LET found == taskID = 1 /\ taskManager.held
       IN taskManager' = [taskManager EXCEPT
              !.calls = @ - 1,
              !.leafs = IF found THEN @ - 1 ELSE @,
              !.taskID[t] = taskID,
              !.known[t] = found,
              !.err[t] = FALSE,
              !.pc[t] = IF found THEN "ReceiveResult" ELSE "idle"]
    /\ OnlyTaskManager

\* taskCtx.ReceiveResult(resp): one result less to wait for
ReceiveResult(t) ==
    /\ "pc" \in DOMAIN taskManager
    /\ taskManager.pc[t] = "ReceiveResult"
    /\ taskManager' = [taskManager EXCEPT !.expectResults = @ - 1, !.pc[t] = "Completed"]
    /\ OnlyTaskManager

\* if taskCtx.Completed(): no result is waited for
Completed(t) ==
    /\ "pc" \in DOMAIN taskManager
    /\ taskManager.pc[t] = "Completed"
    /\ taskManager' = [taskManager EXCEPT
           !.pc[t] = IF taskManager.expectResults = 0 THEN "Complete" ELSE "idle"]
    /\ OnlyTaskManager

\* p.taskManager.Complete(taskID): the manager forgets the task
Complete(t) ==
    /\ "pc" \in DOMAIN taskManager
    /\ taskManager.pc[t] = "Complete"
    /\ taskManager' = [taskManager EXCEPT !.held = FALSE, !.pc[t] = "SendResponse"]
    /\ OnlyTaskManager

\* p.taskManager.SendResponse(taskCtx.ParentNode(), ..) returns nil or an error,
\* which Receive returns
SendResponse(t, sendErr) ==
    /\ "pc" \in DOMAIN taskManager
    /\ taskManager.pc[t] = "SendResponse"
    /\ taskManager' = [taskManager EXCEPT !.responses = @ + 1, !.err[t] = sendErr,
                                          !.pc[t] = "idle"]
    /\ OnlyTaskManager

InitReceive ==
    /\ InitState(Metrics, 0, TRUE)
    /\ suggest = NoSuggest /\ fieldWrites = NoFieldWrites /\ cm = NoManager
    /\ rp = NoReplication /\ shard = NoShard /\ tasks = NoTasks
    /\ taskManager = NewTaskManager

NextReceive ==
    \/ \E numOfTask \in 1..MaxNumOfTask : Process(numOfTask)
    \/ \E t \in Threads, taskID \in {1, 2} : ReceiveGet(t, taskID)
    \/ \E t \in Threads : ReceiveResult(t)
    \/ \E t \in Threads : Completed(t)
    \/ \E t \in Threads : Complete(t)
    \/ \E t \in Threads, sendErr \in BOOLEAN : SendResponse(t, sendErr)

\* goroutines that call Receive on one intermediate task
SpecReceive == InitReceive /\ [][NextReceive]_vars

----------------------------------------------------------------------------
(* The long-lived goroutines: the evictor, started by NewMemoryDatabase with
   the context, and the tags-limit syncer, started by WithMaxTagsLimit.       *)

TasksFrame ==
    UNCHANGED <<hash2MStore, metricID2Hash, mstores, tstores, size, lastWroteFamilyTime, familyTimes, clock,
                pc, loc, ops, serial, expFamilies, flushFailed, passLog, evictNotifier,
                suggest, fieldWrites, cm, rp, shard, taskManager>>

\* the owner of the context cancels it
Cancel ==
    /\ tasks.ctx = "live"
    /\ tasks' = [tasks EXCEPT !.ctx = "done"]
    /\ TasksFrame

\* a WithMaxTagsLimit that starts a syncer goroutine in every call
WithMaxTagsLimitNoOnce ==
    /\ tasks.ctx # "any"
    /\ tasks.calls > 0
    /\ tasks' = [tasks EXCEPT !.calls = @ - 1, !.once4Syncer = TRUE,
                              !.syncers = @ + 1, !.started = @ + 1]
    /\ TasksFrame

\* WithMaxTagsLimit(limitationCh): once4Syncer.Do starts the syncer goroutine in
\* the first call only
WithMaxTagsLimit ==
    /\ tasks.ctx # "any"
    /\ tasks.calls > 0
    /\ tasks' = IF tasks.once4Syncer
                THEN [tasks EXCEPT !.calls = @ - 1]
                ELSE [tasks EXCEPT !.calls = @ - 1, !.once4Syncer = TRUE,
                                   !.syncers = @ + 1, !.started = @ + 1]
    /\ TasksFrame

\* the owner of the channel closes it
CloseLimitationCh ==
    /\ tasks.ctx # "any"
    /\ tasks.once4Syncer
    /\ tasks.limitationCh = "open"
    /\ tasks' = [tasks EXCEPT !.limitationCh = "closed"]
    /\ TasksFrame

\* case limitations, ok := <-limitationCh with ok: setLimitations sets the limit of
\* a metric store that exists, and the syncer is back at its select
SyncerReceive(m, limit) ==
    /\ tasks.ctx # "any"
    /\ tasks.syncers > 0
    /\ tasks.limitationCh = "open"
    /\ ~BucketLocked(BucketOf(m))
    /\ hash2MStore[m] # NoRef
    /\ mstores[hash2MStore[m]].maxTagsLimit # limit
    /\ mstores' = [mstores EXCEPT ![hash2MStore[m]].maxTagsLimit = limit,
                                  ![hash2MStore[m]].lift = IF @ = "reset" THEN "none" ELSE @]
    /\ UNCHANGED <<hash2MStore, metricID2Hash, tstores, size, lastWroteFamilyTime, familyTimes, clock,
                   pc, loc, ops, expFamilies, flushFailed, passLog, evictNotifier, apart>>

\* case <-md.ctx.Done(): return, and the return when the channel is closed
SyncerExit ==
    /\ tasks.ctx # "any"
    /\ tasks.syncers > 0
    /\ tasks.ctx = "done" \/ tasks.limitationCh = "closed"
    /\ tasks' = [tasks EXCEPT !.syncers = @ - 1]
    /\ TasksFrame

\* the series and the metric store after Write("cpu", "host=a") of family 1
WrittenSeries == TStoreWrite(newTimeSeriesStore, 1, 1)

WrittenStore ==
    [newMetricStore("cpu", 1) EXCEPT
        !.mutable = InsertNewTStore(@, "host=a", 1),
        !.fieldsMetas = FieldMetasAfter(<<>>, "f1"),
        !.size = @ + TStoreMemSize(newTimeSeriesStore) + WrittenSeries.writtenSize]

\* a database that has taken one Write, before its evictor has run
InitTasks ==
    /\ serial = TRUE
    /\ hash2MStore = [m \in Metrics |-> 1]
    /\ metricID2Hash = Metrics
    /\ mstores = <<WrittenStore>>
    /\ tstores = <<WrittenSeries.ts>>
    /\ size = MStoreMemSize(WrittenStore, tstores)
    /\ lastWroteFamilyTime = 1
    /\ familyTimes = {1}
    /\ clock = 2
    /\ pc = [t \in Threads |-> "idle"]
    /\ loc = [t \in Threads |-> NoLoc]
    /\ ops = MaxTaskOps
    /\ expFamilies = {1}
    /\ flushFailed = FALSE
    /\ passLog = <<>>
    /\ evictNotifier = NewEvictor("start")
    /\ suggest = NoSuggest /\ fieldWrites = NoFieldWrites /\ cm = NoManager
    /\ rp = NoReplication /\ shard = NoShard /\ tasks = NewTasks /\ taskManager = NoTaskManager

\* the steps of a goroutine in FlushFamilyTo
FlushFamilySteps(t) ==
    \/ \E ft \in CallFamilies : FlushStart(t, ft)
    \/ FlushStoreZero(t)
    \/ FlushSnapshot(t)
    \/ \E ref \in DOMAIN mstores : FlushMutable(t, ref)
    \/ \E flushErr \in BOOLEAN : FlushImmutable(t, flushErr)
    \/ FlushReturn(t)

NextTasks ==
    \/ \E t \in Threads : FlushFamilySteps(t)
    \/ \E ref \in DOMAIN tstores : Expire(ref)
    \/ EvictorStep
    \/ EvictorExit
    \/ Cancel
    \/ WithMaxTagsLimit
    \/ CloseLimitationCh
    \/ \E m \in DOMAIN hash2MStore, limit \in TagLimits : SyncerReceive(m, limit)
    \/ SyncerExit

\* the scheduler lets the evictor and the syncer run; a select with several ready
\* cases picks one of them at random, so a case that is ready again and again is
\* taken
FairTasks == WF_vars(EvictorStep) /\ SF_vars(EvictorExit) /\ SF_vars(SyncerExit)

SpecTasks == InitTasks /\ [][NextTasks]_vars /\ FairTasks

\* field metas of a metric store that has registered n fields
RegisteredMetas(n) == [i \in 1..n |-> [name |-> "f" \o ToString(i), type |-> "Sum", id |-> i]]

\* one metric store, with no field or with one field less than the maximum
InitFields ==
    /\ serial = FALSE
    /\ \E m \in Metrics, n \in {0, TStoreMaxFieldsCount - 1} :
          /\ hash2MStore = [x \in Metrics |-> IF x = m THEN 1 ELSE NoRef]
          /\ metricID2Hash = {m}
          /\ mstores = <<[newMetricStore(m, 1) EXCEPT !.fieldsMetas = RegisteredMetas(n)]>>
    /\ tstores = <<>>
    /\ size = MStoreMemSize(newMetricStore("", 1), <<>>)
    /\ lastWroteFamilyTime = 0
    /\ familyTimes = {}
    /\ clock = 2
    /\ pc = [t \in Threads |-> "idle"]
    /\ loc = [t \in Threads |-> NoLoc]
    /\ ops = MaxFieldOps
    /\ expFamilies = {}
    /\ flushFailed = FALSE
    /\ passLog = <<>>
    /\ evictNotifier = NewEvictor("none")
    /\ suggest = NoSuggest /\ fieldWrites = NoFieldWrites /\ cm = NoManager /\ rp = NoReplication /\ shard = NoShard /\ tasks = NoTasks /\ taskManager = NoTaskManager

NextFields ==
    \E t \in Threads :
        \/ \E ref \in DOMAIN mstores, fieldName \in FieldNames, fieldType \in FieldTypes :
               GetFieldIDOrGenerate(t, ref, fieldName, fieldType)
        \/ \E genErr \in BOOLEAN : GetFieldIDOrGenerateLocked(t, genErr)
        \/ GetFieldIDOrGenerateReturn(t)

\* goroutines call GetFieldIDOrGenerate on one metric store
SpecFields == InitFields /\ [][NextFields]_vars

\* a metric store whose tag indexes hold any tag keys and tag values, an immutable
\* index or none: the memory database around it is empty
InitSuggest ==
    /\ InitState(Metrics, 0, TRUE)
    /\ fieldWrites = NoFieldWrites /\ cm = NoManager /\ rp = NoReplication /\ shard = NoShard /\ tasks = NoTasks /\ taskManager = NoTaskManager
    /\ \E mutable \in TagIndexes, immutable \in TagIndexes, hasImmutable \in BOOLEAN :
          /\ hasImmutable \/ immutable = <<>>
          /\ suggest = NewSuggest(mutable, immutable, hasImmutable)

NextSuggest ==
    \/ \E tagKeyPrefix \in Prefixes, limit \in Limits : SuggestTagKeys(tagKeyPrefix, limit)
    \/ \E tagKey \in TagKeyStrs, tagValuePrefix \in Prefixes, limit \in Limits :
           SuggestTagValues(tagKey, tagValuePrefix, limit)

\* Suggest calls on one metric store
SpecSuggest == InitSuggest /\ [][NextSuggest]_vars

\* the field store of a field of any kind, in an empty memory database
InitPoints ==
    /\ InitState(Metrics, 0, TRUE)
    /\ suggest = NoSuggest /\ cm = NoManager /\ rp = NoReplication /\ shard = NoShard /\ tasks = NoTasks /\ taskManager = NoTaskManager
    /\ \E kind \in FieldKinds : fieldWrites = NewFieldWrites(kind)

NextPoints ==
    \E value \in Values, familyTime \in FamilyTimes, slotIndex \in Slots :
        WritePoint(value, familyTime, slotIndex)

\* points written into one field store
SpecPoints == InitPoints /\ [][NextPoints]_vars

InitFieldStore ==
    /\ InitState(Metrics, 0, TRUE)
    /\ suggest = NoSuggest /\ cm = NoManager /\ rp = NoReplication /\ shard = NoShard /\ tasks = NoTasks /\ taskManager = NoTaskManager
    /\ \E kind \in FieldTypes : fieldWrites = NewFieldWrites(kind)

\* the writes set the first slot of a family to one value: which segments the list
\* holds depends on the family times only
NextFieldStore ==
    \/ \E familyTime \in SegmentFamilies : WritePoint(1, familyTime, 0)
    \/ \E familyTime \in SegmentFamilies, bytesErr \in BOOLEAN : FlushSegment(familyTime, bytesErr)

\* Write and FlushFieldTo calls on one field store
SpecFieldStore == InitFieldStore /\ [][NextFieldStore]_vars

\* a new channel manager, in an empty memory database
InitChannels ==
    /\ InitState(Metrics, 0, TRUE)
    /\ suggest = NoSuggest /\ fieldWrites = NoFieldWrites /\ rp = NoReplication /\ shard = NoShard /\ tasks = NoTasks /\ taskManager = NoTaskManager
    /\ cm = NewChannelManager(MaxCalls)

NextChannels ==
    \/ \E database \in Databases, numOfShard \in NumShards, shardID \in ShardIDs :
           CreateChannel(database, numOfShard, shardID)
    \/ \E t \in Threads :
           \/ \E ch \in DOMAIN cm.chans, target \in Targets : GetOrCreateReplicator(t, ch, target)
           \/ GetOrCreateReplicatorLocked(t)

\* calls of CreateChannel, and goroutines that call GetOrCreateReplicator
SpecChannels == InitChannels /\ [][NextChannels]_vars

\* a new channel with its replicator, in an empty memory database
InitReplication ==
    /\ InitState(Metrics, 0, TRUE)
    /\ suggest = NoSuggest /\ fieldWrites = NoFieldWrites /\ cm = NoManager /\ shard = NoShard /\ tasks = NoTasks /\ taskManager = NoTaskManager
    /\ rp = NewReplication

NextReplication ==
    \/ \E payload \in Payloads : ChannelWrite(payload)
    \/ Connecting
    \/ \E ok \in BOOLEAN : CreateWriteServiceClient(ok)
    \/ Syncing
    \/ Send
    \/ TargetWrite
    \/ \E seq \in 1..MaxWrites : TargetPersist(seq)
    \/ ReceiveAck
    \/ StreamFails
    \/ Close
    \/ Reopen

\* writes into a channel, its replicator and the target of the replicator
SpecReplication == InitReplication /\ [][NextReplication]_vars

\* a new channel whose stream factory and stream work
InitWorking ==
    /\ InitState(Metrics, 0, TRUE)
    /\ suggest = NoSuggest /\ fieldWrites = NoFieldWrites /\ cm = NoManager /\ shard = NoShard /\ tasks = NoTasks /\ taskManager = NoTaskManager
    /\ rp = [NewReplication EXCEPT !.working = TRUE]

NextWorking ==
    \/ \E payload \in Payloads : ChannelWrite(payload)
    \/ Connecting
    \/ CreateWriteServiceClient(TRUE)
    \/ Syncing
    \/ Send
    \/ TargetWrite
    \/ \E seq \in 1..MaxWrites : TargetPersist(seq)
    \/ ReceiveAck

\* the tasks of the replicator and the target are scheduled fairly; a writer may
\* stop at any time
FairWorking ==
    /\ WF_vars(Connecting)
    /\ WF_vars(CreateWriteServiceClient(TRUE))
    /\ WF_vars(Syncing)
    /\ WF_vars(Send)
    /\ WF_vars(TargetWrite)
    /\ WF_vars(ReceiveAck)

\* writes into a channel whose stream never fails and is never closed
SpecWorking == InitWorking /\ [][NextWorking]_vars /\ FairWorking

\* a shard, in an empty memory database
InitShard ==
    /\ InitState(Metrics, 0, TRUE)
    /\ suggest = NoSuggest /\ fieldWrites = NoFieldWrites /\ cm = NoManager /\ rp = NoReplication
    /\ shard = NewShard /\ tasks = NoTasks /\ taskManager = NoTaskManager

NextShard ==
    \E t \in Threads :
        \/ ShardFlush(t)
        \/ \E err \in {ErrNil, ErrFlush} : ShardFlushForwardIndex(t, err)
        \/ \E err \in {ErrNil, ErrFlush} : ShardFlushInvertedIndex(t, err)
        \/ \E families \in SUBSET FamilyTimes : ShardFamilies(t, families)
        \/ \E familyTime \in FamilyTimes, err \in {ErrNil, ErrFlush} :
               ShardFlushFamily(t, familyTime, err)
        \/ ShardFlushDone(t)

\* goroutines that call Flush on one shard
SpecShard == InitShard /\ [][NextShard]_vars

---------------------------------------------------------------------------
(* Properties *)

\* families of which some field store of a metric store in the buckets holds a segment
HeldFamilies == UNION {MStoreFamilies(mstores[ref], tstores) : ref \in LiveMStores}

\* families of which a field store of an index removed by the flush of t holds a segment
DroppedFamilies(t) == UNION {IndexFamilies(index, tstores) : index \in loc[t].dropped}

\* C1: in a sequential history of Write and FlushFamilyTo, Families() holds exactly
\* the families written with success since their last FlushFamilyTo: a family is in
\* from the successful Write until FlushFamilyTo of it is called, and out after it
C1_FamiliesFollowWrites == Quiescent => familyTimes = expFamilies

\* C1 for the families other than 0, the initial value of lastWroteFamilyTime
C1_NonZeroFamiliesFollowWrites == Quiescent => familyTimes \ {0} = expFamilies \ {0}

\* C2: once a Write and a FlushFamilyTo that ran concurrently have both returned nil,
\* every family of which a field store still holds a segment is in Families()
C2_HeldFamiliesListed == (Quiescent /\ ~flushFailed) => HeldFamilies \subseteq familyTimes

\* C2 for the families other than 0
C2_NonZeroHeldFamiliesListed ==
    (Quiescent /\ ~flushFailed) => (HeldFamilies \ {0}) \subseteq familyTimes

\* C3: when FlushFamilyTo(ft) returns nil and no write was in flight, no field store
\* of a metric store, in the mutable or in the former immutable index, holds a
\* segment of family ft
C3_NoSegmentOfFlushedFamily ==
    \A t \in Threads :
        (pc[t] = "f_ret" /\ loc[t].err = ErrNil)
            => loc[t].ft \notin (HeldFamilies \cup DroppedFamilies(t))

C3_Witness ==
    \E t \in Threads :
        /\ pc[t] = "f_ret" /\ loc[t].err = ErrNil
        /\ Cardinality(loc[t].handed) = 2
        /\ HeldFamilies # {}

\* C4: in every quiescent state MemoryDatabase.MemSize() is the sum of MemSize()
\* over the metric stores in the buckets
C4_SizeIsSumOfStores ==
    Quiescent => size = SumOver([ref \in LiveMStores |-> MStoreMemSize(mstores[ref], tstores)],
                                LiveMStores)

\* C5: ResetVersion with the immutable slot occupied returns
\* ErrResetVersionUnavailable and changes neither slot nor the sizes; otherwise the
\* mutable index becomes the immutable one and a fresh empty mutable index is
\* installed; under any interleaving at most one ResetVersion succeeds between two
\* flushes of the metric store
C5_ResetVersion ==
    /\ [](\A ref \in DOMAIN mstores : mstores[ref].resets <= 1)
    /\ [][\A t \in Threads :
            /\ (pc[t] = "r_lock" /\ pc'[t] = "r_ret") =>
                  LET ms == mstores[loc[t].ms]
                      ms2 == mstores'[loc[t].ms]
                  IN IF ms.immutable.version # 0
                     THEN /\ loc'[t].err = ErrResetVersionUnavailable
                          /\ loc'[t].created = 0
                          /\ ms2 = ms
                     ELSE /\ loc'[t].err = ErrNil
                          /\ ms2.immutable = ms.mutable
                          /\ ms2.mutable.series = <<>> /\ ms2.mutable.idCounter = 0
                          /\ ms2.mutable.version \notin {0, ms.mutable.version}
            /\ (pc[t] = "r_check" /\ pc'[t] # "r_check"
                   /\ mstores[loc[t].ms].immutable.version # 0) =>
                  /\ pc'[t] = "r_ret" /\ loc'[t].err = ErrResetVersionUnavailable
                  /\ loc'[t].created = 0
                  /\ UNCHANGED <<mstores, size>>
            /\ (pc[t] = "r_ret" /\ pc'[t] = "idle" /\ loc[t].err # ErrNil) =>
                  UNCHANGED <<mstores, size>>
      ]_vars

\* two concurrent ResetVersion calls: one has succeeded, the other has failed
C5_Witness ==
    \E t, u \in Threads :
        /\ pc[t] = "r_ret" /\ loc[t].err = ErrNil /\ loc[t].created > 0
        /\ pc[u] = "r_ret" /\ loc[u].err = ErrResetVersionUnavailable
        /\ loc[t].ms = loc[u].ms

\* C6: a Write on a metric store whose mutable index has tagsUsed >= the max-tags
\* limit returns ErrTooManyTags, from MetricStore.Write and unchanged from
\* MemoryDatabase.Write, and creates no series and no segment, adds no family time
\* and changes no size
C6_RejectedWrite ==
    [][\A t \in Threads :
            /\ (pc[t] = "w_isFull" /\ pc'[t] # "w_isFull"
                   /\ mstores[loc[t].ms].mutable.idCounter >= mstores[loc[t].ms].maxTagsLimit) =>
                  /\ pc'[t] = "w_ret" /\ loc'[t].err = ErrTooManyTags /\ loc'[t].written = 0
                  /\ UNCHANGED <<hash2MStore, metricID2Hash, tstores, size, familyTimes, lastWroteFamilyTime>>
                  /\ \A ref \in DOMAIN mstores :
                        /\ mstores'[ref].size = mstores[ref].size
                        /\ mstores'[ref].mutable = mstores[ref].mutable
                        /\ mstores'[ref].immutable = mstores[ref].immutable
            /\ (pc[t] = "w_ret" /\ loc[t].err = ErrTooManyTags /\ pc'[t] = "idle") =>
                  UNCHANGED <<hash2MStore, metricID2Hash, mstores, tstores, size, familyTimes,
                              lastWroteFamilyTime, expFamilies>>
      ]_vars

\* a Write for a series that exists, rejected because the metric store is full
C6_Witness ==
    \E t \in Threads :
        /\ pc[t] = "w_ret" /\ loc[t].err = ErrTooManyTags
        /\ loc[t].tg \in DOMAIN mstores[loc[t].ms].mutable.series
        /\ mstores[loc[t].ms].maxTagsLimit > 0

\* C7: after a ResetMetricStore that succeeded on a metric whose Write was rejected
\* with ErrTooManyTags, the next Write for the metric (limit unchanged and > 0) is
\* not rejected
C7_ResetLiftsTagLimit == \A ref \in DOMAIN mstores : mstores[ref].lift # "refused"

C7_Witness ==
    \E t \in Threads :
        /\ pc[t] = "w_ret" /\ loc[t].err = ErrNil
        /\ mstores[loc[t].ms].lift = "accepted"

\* C8: under any interleaving of GetFieldIDOrGenerate calls on one metric store, a
\* call with (name, type) that returns a field id without error finds name
\* registered with exactly that type and that id
C8_FieldTypeConsistent ==
    \A t \in Threads :
        (pc[t] = "g_ret" /\ loc[t].err = ErrNil) =>
            \E i \in GetFromName(mstores[loc[t].ms].fieldsMetas, loc[t].fieldName) :
                /\ mstores[loc[t].ms].fieldsMetas[i].type = loc[t].fieldType
                /\ mstores[loc[t].ms].fieldsMetas[i].id = loc[t].fieldID

\* C9: the field-meta list of a metric store never holds more than
\* TStoreMaxFieldsCount entries, under any interleaving of GetFieldIDOrGenerate calls
C9_FieldMetasBounded ==
    \A ref \in DOMAIN mstores : Len(mstores[ref].fieldsMetas) <= TStoreMaxFieldsCount

\* the last three flushes were of these kinds, in this order
PassInOrder(k1, k2, k3) ==
    /\ Len(passLog) = 3
    /\ passLog[1].kind = k1 /\ passLog[2].kind = k2 /\ passLog[3].kind = k3

SegmentBytes ==
    SumOver([ref \in DOMAIN tstores |->
                SumOver([id \in DOMAIN tstores[ref].fStores |->
                            Len(tstores[ref].fStores[id].nodes) * emptySimpleFieldStoreSize],
                        DOMAIN tstores[ref].fStores)],
            DOMAIN tstores)

\* C11: when the flush of one metric store fails during FlushFamilyTo, FlushFamilyTo
\* returns that error at once: it flushes no further metric store, it has subtracted
\* from the size the bytes of the segments flushed so far, and it still sends the
\* eviction signal
C11_FlushErrorEndsPass ==
    /\ [](\A t \in Threads :
            pc[t] \in {"f_snapshot", "f_mutable", "f_immutable"} => loc[t].err = ErrNil)
    /\ [][\A t \in Threads :
            /\ (pc[t] = "f_mutable" /\ pc'[t] # pc[t]) =>
                  /\ loc'[t].flushed = SegmentBytes - SegmentBytes'
                  /\ size' = size
            /\ (pc[t] = "f_immutable" /\ pc'[t] # pc[t]) =>
                  size - size' = loc[t].flushed + (SegmentBytes - SegmentBytes')
            /\ (pc[t] = "f_ret" /\ pc'[t] # "f_ret") =>
                  /\ pc'[t] = "idle"
                  /\ evictNotifier'.pc = "e_snapshot"
                  /\ UNCHANGED <<mstores, size, hash2MStore>>
                  /\ \A ref \in LiveMStores :
                        MStoreFamilies(mstores[ref], tstores') = MStoreFamilies(mstores[ref], tstores)
      ]_vars

\* a flush that failed on the first metric store while a second one, not flushed,
\* holds a segment of the family
C11_Witness ==
    \E t \in Threads :
        /\ pc[t] = "f_ret" /\ loc[t].err = ErrFlush
        /\ loc[t].handed # {}
        /\ loc[t].ft \in HeldFamilies

\* the entry sets of the mutable and of the immutable tag index
SearchedEntrySets ==
    {suggest.mutable[i] : i \in DOMAIN suggest.mutable}
        \cup (IF suggest.hasImmutable
              THEN {suggest.immutable[i] : i \in DOMAIN suggest.immutable} ELSE {})

\* C12: SuggestTagKeys and SuggestTagValues return nil when limit <= 0, and otherwise
\* at most min(limit, MaxSuggestions) distinct strings, tag keys or tag values of the
\* mutable and the immutable tag index, however many keys or values match.
C12_SuggestionsBounded ==
    suggest.op # "none" =>
        LET held == IF suggest.op = "SuggestTagKeys"
                    THEN {es.key : es \in SearchedEntrySets}
                    ELSE UNION {es.values : es \in SearchedEntrySets}
            most == IF suggest.limit < MaxSuggestions THEN suggest.limit ELSE MaxSuggestions
        IN  /\ suggest.limit <= 0 => suggest.result = <<>>
            /\ suggest.limit > 0 =>
                  /\ Len(suggest.result) <= most
                  /\ \A i, j \in DOMAIN suggest.result :
                        i # j => suggest.result[i] # suggest.result[j]
                  /\ \A i \in DOMAIN suggest.result : suggest.result[i] \in held

\* C13: SuggestTagValues(tagKey, prefix, limit) returns only tag values of the given
\* tag key that start with the prefix, never a value of another tag key.
C13_ValuesOfTagKey ==
    suggest.op = "SuggestTagValues" =>
        \A i \in DOMAIN suggest.result :
            /\ HasPrefix(suggest.result[i], suggest.prefix)
            /\ \E es \in SearchedEntrySets :
                  es.key = suggest.tagKey /\ suggest.result[i] \in es.values

\* the values written into a slot of a family, in the order of the writes
RECURSIVE WrittenInto(_, _, _)
WrittenInto(points, familyTime, slotIndex) ==
    IF points = <<>> THEN <<>>
    ELSE LET p == Head(points)
             rest == WrittenInto(Tail(points), familyTime, slotIndex)
         IN  IF p.familyTime = familyTime /\ p.slotIndex = slotIndex
             THEN <<p.value>> \o rest ELSE rest

\* what the writes of a kind aggregate to
RECURSIVE SumOf(_)
SumOf(values) == IF values = <<>> THEN 0 ELSE Head(values) + SumOf(Tail(values))

Aggregate(kind, values) ==
    CASE kind = "Sum" -> SumOf(values)
      [] kind = "Min" -> CHOOSE v \in {values[i] : i \in DOMAIN values} :
                              \A i \in DOMAIN values : v <= values[i]
      [] kind = "Max" -> CHOOSE v \in {values[i] : i \in DOMAIN values} :
                              \A i \in DOMAIN values : v >= values[i]
      [] kind = "First" -> values[1]
      [] kind = "Last" -> values[Len(values)]

\* the slot of the family holds the aggregate of the values written into it
SlotHolds(familyTime, slotIndex) ==
    LET values == WrittenInto(fieldWrites.points, familyTime, slotIndex)
    IN  values # <<>> =>
            \E i \in DOMAIN fieldWrites.fs.nodes :
                /\ fieldWrites.fs.nodes[i].familyTime = familyTime
                /\ slotIndex \in DOMAIN fieldWrites.fs.nodes[i].slots
                /\ fieldWrites.fs.nodes[i].slots[slotIndex] = Aggregate(fieldWrites.kind, values)

\* C14: repeated writes into the same (series, field, familyTime, slot) aggregate by
\* the kind of the field: Sum adds up (the same value twice gives value*2), Min and
\* Max keep the smallest and the largest, First keeps the first and Last the latest
\* value; fieldStore.Write creates and updates a segment for each of these kinds.
C14_AggregatesByKind ==
    fieldWrites.kind # "none" =>
        \A familyTime \in FamilyTimes, slotIndex \in Slots : SlotHolds(familyTime, slotIndex)

\* the part of C14 that holds: Sum fields
C14_SumAggregates ==
    fieldWrites.kind = "Sum" =>
        \A familyTime \in FamilyTimes, slotIndex \in Slots : SlotHolds(familyTime, slotIndex)

\* what CreateChannel has to return after the successful calls made so far
ExpectedOfCreateChannel(call, succeeded) ==
    IF \/ call.shardID < 0 \/ call.shardID >= call.numOfShard
       \/ \E e \in succeeded : e.database = call.database /\ e.numOfShard # call.numOfShard
    THEN {[err |-> ErrShardConfigConflict, ch |-> NoRef]}
    ELSE LET same == {e.ch : e \in {x \in succeeded : /\ x.database = call.database
                                                       /\ x.shardID = call.shardID}}
         IN  IF same # {} THEN {[err |-> ErrNil, ch |-> ch] : ch \in same}
             ELSE {[err |-> ErrNil, ch |-> ch] :
                      ch \in (1..(MaxCalls + 1)) \ {e.ch : e \in succeeded}}

\* C15: in a sequence of CreateChannel calls on one ChannelManager, a call fails when
\* its shard is outside [0, numShards) or its numShards differs from the numShards of
\* an earlier successful call for the same database; every other call succeeds, with
\* the same channel instance for the same (database, shard) and a new instance
\* otherwise; a failed call changes nothing in the manager.
C15_CreateChannel ==
    [][cm'.last # cm.last =>
           /\ [err |-> cm'.last.err, ch |-> cm'.last.ch]
                 \in ExpectedOfCreateChannel(cm'.last, cm.succeeded)
           /\ cm'.last.err # ErrNil =>
                 /\ cm'.numOfShards = cm.numOfShards
                 /\ cm'.channels = cm.channels
                 /\ cm'.chans = cm.chans
                 /\ cm'.succeeded = cm.succeeded
      ]_vars

\* a call succeeds with the channel of an earlier call, after some call has failed
C15_Witness ==
    /\ cm.last.op = "CreateChannel" /\ cm.last.err = ErrNil
    /\ cm.failed
    /\ \E e \in cm.succeeded : e.no # cm.last.no /\ e.ch = cm.last.ch
    /\ Len(cm.chans) >= 2

\* C16: GetOrCreateReplicator of a channel is idempotent per target, also for calls
\* that run at the same time: every call for a target returns the same replicator,
\* and Targets() holds exactly the targets requested, each once.
C16_ReplicatorPerTarget ==
    /\ \A x, y \in cm.returned :
           x.ch = y.ch /\ x.target = y.target => x.replicator = y.replicator
    /\ \A x \in cm.returned :
           /\ x.target \in ChannelTargets(x.ch)
           /\ cm.chans[x.ch].replicators[x.target] = x.replicator
    /\ \A ch \in DOMAIN cm.chans :
           /\ ChannelTargets(ch) \subseteq {x.target : x \in {y \in cm.requested : y.ch = ch}}
           /\ \A tg1, tg2 \in ChannelTargets(ch) :
                 tg1 # tg2 => cm.chans[ch].replicators[tg1] # cm.chans[ch].replicators[tg2]

\* two calls for one target ran at the same time and both have returned, and the
\* channel has a second target
C16_Witness ==
    /\ cm.raced
    /\ \A t \in Threads : cm.pc[t] = "idle"
    /\ \E ch \in DOMAIN cm.chans : Cardinality(ChannelTargets(ch)) = 2

\* the channel of the replication model exists
Replicating == rp.state # "none"

\* C17: for every replicator 0 <= Pending() <= appendSeq, and consumerSeq never
\* decreases, over appends, acks, stream failures and reconnects.
C17_PendingBounded ==
    /\ [](Replicating => 0 <= Pending /\ Pending <= appendSeq)
    /\ [][Replicating => rp'.consumerSeq >= rp.consumerSeq]_vars

\* a stream is opened again while the target reports less than the cursor, with
\* records pending
C17_Witness ==
    /\ Replicating
    /\ rp.state = "STREAMING" /\ rp.resumed
    /\ rp.persisted < rp.consumerSeq
    /\ Pending > 0

\* C18: for writes p1..pn into a channel and any interleaving of stream failures and
\* reconnects, the target observes the records in append order, the acks arrive in
\* the order of the sequences, one after the other, and after a reconnect sending
\* resumes at consumerSeq+1.
C18_AppendOrder ==
    /\ [](Replicating =>
            /\ \A i, j \in DOMAIN rp.applied : i < j => rp.applied[i].seq < rp.applied[j].seq
            /\ \A i \in DOMAIN rp.applied :
                  /\ rp.applied[i].seq \in 1..appendSeq
                  /\ rp.applied[i].payload = rp.log[rp.applied[i].seq]
            /\ \A k \in DOMAIN rp.requests :
                  /\ rp.requests[k].seq = rp.requests[1].seq + k - 1
                  /\ rp.requests[k].payload = rp.log[rp.requests[k].seq])
    /\ [][Replicating =>
            /\ (rp.state = "STREAMING" /\ rp'.state = "STREAMING"
                    /\ rp'.consumerSeq # rp.consumerSeq) =>
                  rp'.consumerSeq = rp.consumerSeq + 1
            /\ (rp.state # "STREAMING" /\ rp'.state = "STREAMING") =>
                  rp'.sendSeq = rp'.consumerSeq + 1
       ]_vars

\* every write is acknowledged, after the stream has been opened again
C18_Witness ==
    /\ Replicating
    /\ rp.resumed
    /\ appendSeq = MaxWrites
    /\ rp.consumerSeq = appendSeq
    /\ Len(rp.applied) = appendSeq

\* C19: replay is exactly-once at the target: of the records sent again from a
\* sequence at or below the cursor s of the target, those with seq <= s are skipped
\* and s+1..appendSeq are written once each, also when records that were on the
\* stream are sent again after a Close or a reconnect.
C19_ExactlyOnce ==
    /\ [](Replicating =>
            /\ Len(rp.applied) = rp.cursor
            /\ \A i \in DOMAIN rp.applied : rp.applied[i].seq = i
            /\ rp.consumerSeq <= rp.cursor
            /\ rp.cursor <= appendSeq)
    /\ [][(/\ Replicating
           /\ rp.requests # <<>> /\ rp'.requests = Tail(rp.requests)
           /\ rp'.state = "STREAMING"
           /\ Head(rp.requests).seq <= rp.cursor) =>
              rp'.applied = rp.applied /\ rp'.cursor = rp.cursor
       ]_vars

\* the target has skipped a record it had written, and has written every record
C19_Witness ==
    /\ Replicating
    /\ rp.deduped
    /\ appendSeq >= 2
    /\ rp.cursor = appendSeq
    /\ rp.consumerSeq = appendSeq

\* C20: while every attempt to create the write service client fails, Channel.Write
\* returns nil after the local append and Pending() is the number of records
\* appended; a failure of the target is never returned to the writer, and Close
\* does not lose the pending records.
C20_TargetFailureNotReturned ==
    /\ [](Replicating =>
            /\ rp.writeErr = ErrNil
            /\ ~rp.connected => Pending = appendSeq /\ rp.applied = <<>>)
    /\ [][(Replicating /\ (rp'.state = "CLOSED" \/ rp.state = "CLOSED")) =>
              rp'.log = rp.log /\ rp'.consumerSeq = rp.consumerSeq
       ]_vars

\* the client could never be created, a record was written and the channel closed
C20_Witness ==
    /\ rp.state = "CLOSED"
    /\ ~rp.connected /\ rp.attempts >= 1
    /\ Pending = 1

\* WriteRequests with the sequence seq sent so far
SentTimes(seq) == Cardinality({i \in DOMAIN rp.sent : rp.sent[i] = seq})

\* C21: with a working stream and fair scheduling of the replicator tasks, every
\* record appended by Channel.Write is eventually sent to the target, no record is
\* sent twice, and whenever the writes stop Pending() eventually reaches 0.
C21_EventuallyReplicated ==
    /\ \A seq \in 1..MaxWrites : (appendSeq >= seq) ~> (SentTimes(seq) = 1)
    /\ [](\A seq \in 1..MaxWrites : SentTimes(seq) <= 1)
    /\ \A n \in 0..MaxWrites : (appendSeq = n) ~> (Pending = 0 \/ appendSeq > n)

\* more records than the window holds were written and each was sent once
C21_Witness ==
    /\ rp.working
    /\ appendSeq > WindowSize
    /\ rp.sent = [i \in 1..appendSeq |-> i]
    /\ Pending = 0

\* goroutines in a flush of the shard
Flushing == {t \in Threads : shard.pc[t] # "idle"}

ConsumerCursor == appendSeq - Pending

\* the receiver takes a WriteResponse from the stream
AckReceived == rp.responses # <<>> /\ rp'.responses = Tail(rp.responses)

\* C23: the cursor of the replicator is advanced only when an ack is received, never
\* by a send alone; on a send or receive error the cursor stays at the last acked
\* sequence, the state becomes FAILED and then CONNECTING, and STREAMING is only
\* entered from SYNCING.
C23_CursorAdvancesOnAck ==
    [][Replicating =>
          /\ ConsumerCursor' > ConsumerCursor => AckReceived
          /\ rp'.consumerSeq > rp.consumerSeq => AckReceived
          /\ (rp'.state = "FAILED" /\ rp.state # "FAILED") =>
                 rp'.consumerSeq = rp.consumerSeq
          /\ rp.state = "FAILED" => rp'.state \in {"FAILED", "CONNECTING", "CLOSED"}
          /\ (rp'.state = "STREAMING" /\ rp.state # "STREAMING") => rp.state = "SYNCING"
    ]_vars

\* the part of C23 on the states: a broken stream leaves the acked sequence, FAILED
\* is left for CONNECTING (or CLOSED), and STREAMING is only entered from SYNCING
C23_FailedThenConnecting ==
    [][Replicating =>
          /\ (rp'.state = "FAILED" /\ rp.state # "FAILED") =>
                 rp'.consumerSeq = rp.consumerSeq
          /\ rp.state = "FAILED" => rp'.state \in {"FAILED", "CONNECTING", "CLOSED"}
          /\ (rp'.state = "STREAMING" /\ rp.state # "STREAMING") => rp.state = "SYNCING"
    ]_vars

\* C24: FlushMetricsDataTo calls FlushFieldMetas first, then flushes the data of the
\* mutable index, then, after the placeholder has been stored in the immutable slot,
\* the data of the former immutable index, and calls FlushMetric(metricID) once and
\* last; its error is the result of FlushMetric.
C24_FlusherCallOrder ==
    /\ [](\A t \in Threads :
            LET calls == loc[t].calls
                n == Len(calls)
            IN  calls # <<>> =>
                  /\ n \in 3..5
                  /\ calls[1].call = "FlushFieldMetas"
                  /\ calls[2].call = "FlushVersionDataTo"
                  /\ calls[3].call = "immutable.Store" /\ calls[3].arg = staticNopTagIndex.version
                  /\ \A i \in 1..(n - 1) : calls[i].call # "FlushMetric"
                  /\ n > 3 => calls[n].call = "FlushMetric"
                  /\ n = 5 => calls[4].call = "FlushVersionDataTo")
    /\ [][\A t \in Threads :
            /\ (pc[t] = "f_mutable" /\ pc'[t] = "f_immutable") =>
                  LET ms == mstores[loc'[t].ms]
                  IN  /\ Len(loc'[t].calls) = 3
                      /\ loc'[t].calls[2].arg = ms.mutable.version
                      /\ loc'[t].imm = ms.immutable
                      /\ mstores'[loc'[t].ms].immutable = staticNopTagIndex
            /\ (pc[t] = "f_immutable" /\ pc'[t] # "f_immutable") =>
                  LET calls == loc'[t].calls
                      n == Len(calls)
                  IN  /\ SubSeq(calls, 1, 3) = loc[t].calls
                      /\ (n = 5) <=> (loc[t].imm.version # 0)
                      /\ n = 5 => calls[4].arg = loc[t].imm.version
                      /\ calls[n].arg = mstores[loc[t].ms].metricID
                      /\ loc'[t].err = calls[n].err
       ]_vars

\* the flush of a metric store with an immutable index has run: both indexes were
\* flushed, and FlushMetric returned an error
C24_Witness ==
    \E t \in Threads :
        /\ Len(loc[t].calls) = 5
        /\ loc[t].calls[5].err = ErrFlush
        /\ loc[t].err = ErrFlush

---------------------------------------------------------------------------
\* C25: the signal to the evictor is not lost. Whenever a FlushFamilyTo has
\* returned, a sweep of the evictor starts afterwards (it reads its first bucket
\* after the return), unless the context is cancelled and the evictor has exited;
\* also when the evictor was sweeping or had not reached its select when the
\* flush returned.
C25_SignalNotLost ==
    evictNotifier.owed ~> (~evictNotifier.owed \/ evictNotifier.pc = "exited")

\* the signal is not lost when the evictor waits in its select at the return of
\* the flush
C25_SignalReceivedInSelect ==
    [][\A t \in Threads :
          pc[t] = "f_ret" /\ pc'[t] = "idle" /\ evictNotifier.pc = "select"
              => evictNotifier'.pc = "e_snapshot" /\ evictNotifier'.b = 0]_vars

---------------------------------------------------------------------------
---------------------------------------------------------------------------
\* the series the double check of an Evict call removes from the mutable index
RemovedSeries ==
    DOMAIN mstores[evictNotifier.ms].mutable.series
        \ DOMAIN mstores'[evictNotifier.ms].mutable.series

---------------------------------------------------------------------------
\* the metrics whose metric store a step deletes from its bucket
DeletedMetrics == {m \in DOMAIN hash2MStore : hash2MStore[m] # NoRef /\ hash2MStore'[m] = NoRef}

\* C28: a metric store that holds a live series or an index in its immutable slot
\* is never deleted from its bucket: in the state a deletion starts from, IsEmpty()
\* holds for the store.
C28_DeletedStoreIsEmpty ==
    [][\A m \in DeletedMetrics : MStoreIsEmpty(mstores[hash2MStore[m]])]_vars

\* the first part of C28: a metric store is deleted by the evictor only, holding
\* the lock of the bucket, after its second IsEmpty() has held under that lock
C28_DeletedAfterRecheck ==
    /\ [][\A m \in DeletedMetrics :
             /\ evictNotifier.pc = "e_delete" /\ evictNotifier.m = m
             /\ evictNotifier.ms = hash2MStore[m]]_vars
    /\ [][evictNotifier'.pc = "e_delete" /\ evictNotifier.pc # "e_delete" =>
             /\ evictNotifier.pc = "e_lock"
             /\ MStoreIsEmpty(mstores[evictNotifier.ms])]_vars

---------------------------------------------------------------------------
\* the positions of the segment list that hold a segment of familyTime
SegmentsOf(nodes, familyTime) == {i \in 1..Len(nodes) : nodes[i].familyTime = familyTime}

\* C29: after any sequence of Write and FlushFieldTo calls the segment list of
\* the field store is sorted strictly ascending by family time (so every family
\* time is in it at most once), and GetSStore(ft) finds a segment exactly when the
\* list holds one of family time ft, and then returns that one.
C29_SegmentsSorted ==
    LET nodes == fieldWrites.fs.nodes IN
    /\ \A i \in 1..(Len(nodes) - 1) : nodes[i].familyTime < nodes[i + 1].familyTime
    /\ \A ft \in SegmentFamilies :
          /\ GetSStoreOk(fieldWrites.fs, ft) <=> SegmentsOf(nodes, ft) # {}
          /\ GetSStoreOk(fieldWrites.fs, ft)
                 => nodes[GetSStoreIdx(fieldWrites.fs, ft) + 1].familyTime = ft

\* segments were written in descending order of their family times, the last
\* FlushFieldTo has flushed one of them, and two are in the list
C29_Witness ==
    /\ fieldWrites.flushes > 0
    /\ fieldWrites.lastFlush.flushField # <<>>
    /\ Len(fieldWrites.fs.nodes) >= 2
    /\ \E i, j \in 1..Len(fieldWrites.points) :
          i < j /\ fieldWrites.points[i].familyTime > fieldWrites.points[j].familyTime

---------------------------------------------------------------------------
\* the list without its element at position i
WithoutSegment(nodes, i) == SubSeq(nodes, 1, i - 1) \o SubSeq(nodes, i + 1, Len(nodes))

\* the effect C30 states for the FlushFieldTo call that leads from the field store
\* before to the field store after: a segment of the family is removed, handed to
\* FlushField in one call, and its size returned; without such a segment nothing
\* is called, 0 is returned and the list stays
FlushFieldToEffect(before, after, call) ==
    IF SegmentsOf(before.nodes, call.familyTime) # {}
    THEN \E i \in SegmentsOf(before.nodes, call.familyTime) :
            /\ after.nodes = WithoutSegment(before.nodes, i)
            /\ call.flushField = <<SStoreBytes(before.nodes[i])>>
            /\ call.flushedSize = SStoreMemSize(before.nodes[i])
    ELSE /\ after.nodes = before.nodes
         /\ call.flushField = <<>>
         /\ call.flushedSize = 0

\* C30: every FlushFieldTo call has the effect FlushFieldToEffect; in particular a
\* segment is never removed without its data handed to FlushField.
C30_FlushFieldToEffect ==
    [][fieldWrites'.flushes = fieldWrites.flushes + 1
          => FlushFieldToEffect(fieldWrites.fs, fieldWrites'.fs, fieldWrites'.lastFlush)]_vars

\* the effect holds for the calls in which sStore.Bytes returns no error
C30_EffectWithoutBytesError ==
    [][fieldWrites'.flushes = fieldWrites.flushes + 1 /\ ~fieldWrites'.lastFlush.bytesErr
          => FlushFieldToEffect(fieldWrites.fs, fieldWrites'.fs, fieldWrites'.lastFlush)]_vars

---------------------------------------------------------------------------
\* the segments of the field store with a slot range that is not empty
RangedSegments == {i \in 1..Len(fieldWrites.fs.nodes) : ~SlotRange(fieldWrites.fs.nodes[i]).err}

StartTime(i, interval) ==
    fieldWrites.fs.nodes[i].familyTime + SlotRange(fieldWrites.fs.nodes[i]).startSlot * interval

EndTime(i, interval) ==
    fieldWrites.fs.nodes[i].familyTime + SlotRange(fieldWrites.fs.nodes[i]).endSlot * interval

IsLeastStart(start, interval) ==
    /\ \E i \in RangedSegments : start = StartTime(i, interval)
    /\ \A i \in RangedSegments : start <= StartTime(i, interval)

IsGreatestEnd(end, interval) ==
    /\ \E i \in RangedSegments : end = EndTime(i, interval)
    /\ \A i \in RangedSegments : end >= EndTime(i, interval)

\* C31: TimeRange(interval) returns ok = FALSE when no segment has a slot range,
\* and otherwise the least start time and the greatest end time of the segments
\* that have one, a start time of 0 included.
C31_TimeRange ==
    \A interval \in Intervals :
        LET r == TimeRange(fieldWrites.fs, interval) IN
        /\ r.ok <=> RangedSegments # {}
        /\ r.ok => IsLeastStart(r.Start, interval) /\ IsGreatestEnd(r.End, interval)

\* what holds of TimeRange: ok and End are as stated, and Start is the least start
\* time when no segment starts at time 0
C31_TimeRangeButStartZero ==
    \A interval \in Intervals :
        LET r == TimeRange(fieldWrites.fs, interval) IN
        /\ r.ok <=> RangedSegments # {}
        /\ r.ok => IsGreatestEnd(r.End, interval)
        /\ r.ok /\ (\A i \in RangedSegments : StartTime(i, interval) # 0)
              => IsLeastStart(r.Start, interval)


\* C32: once the context is cancelled the evictor goroutine exits, and a syncer
\* goroutine whose context is cancelled or whose channel is closed exits; however
\* often WithMaxTagsLimit is called, at most one syncer is ever started
C32_TasksStop ==
    /\ (tasks.ctx = "done") ~> (evictNotifier.pc = "exited")
    /\ (tasks.ctx = "done" \/ tasks.limitationCh = "closed") ~> (tasks.syncers = 0)
    /\ [](tasks.started <= 1)

\* the context is cancelled during a sweep, after several WithMaxTagsLimit calls,
\* and both goroutines are gone
C32_Witness ==
    /\ tasks.ctx = "done"
    /\ tasks.calls = 0
    /\ tasks.started = 1
    /\ tasks.syncers = 0
    /\ evictNotifier.pc = "exited"
    /\ hash2MStore["cpu"] = NoRef


\* C33: between the operations, every family that has taken a point with success
\* and has not been flushed since still has its points in the mutable or the
\* immutable index of a metric store, whatever other families were flushed and
\* whether or not ResetVersion has run.
C33_OtherFamiliesKept == (Quiescent /\ ~flushFailed) => expFamilies \subseteq HeldFamilies

\* families of which the mutable index of some metric store of the buckets holds a point
MutableFamilies == UNION {IndexFamilies(mstores[ref].mutable, tstores) : ref \in LiveMStores}

\* a step of FlushFamilyTo(ft) removes no family but ft from the mutable indexes
C33_MutableKept ==
    [][\A t \in Threads :
          pc[t] \in {"f_store0", "f_snapshot", "f_mutable", "f_immutable", "f_ret"} =>
              MutableFamilies \ {loc[t].ft} \subseteq MutableFamilies']_vars

\* the series of tags tg in the mutable index of the metric store that the bucket
\* of metric m holds has a point of family ft
HeldInBucket(m, tg, ft, buckets, mss, heap) ==
    /\ buckets[m] # NoRef
    /\ tg \in DOMAIN mss[buckets[m]].mutable.series
    /\ mss[buckets[m]].mutable.series[tg].ts \in DOMAIN heap
    /\ ft \in TStoreFamilies(heap[mss[buckets[m]].mutable.series[tg].ts])

\* C34: with an evictor sweep beside the Write, a point whose Write has returned
\* nil stays in a metric store of the buckets: while no call is in flight (so no
\* flush runs), a step of the evictor removes no family from the metric stores of
\* the buckets.
C34_NoWriteLostToEviction ==
    [][(Quiescent /\ EvictorStep) => HeldFamilies \subseteq HeldFamilies']_vars

\* at the return of a Write with nil its point is held by a series of the mutable
\* tag index of a metric store that is in its bucket (the evictor has removed
\* neither the store nor the series the Write had looked up)
C34_HeldAtReturn ==
    [][\A t \in Threads :
          (pc[t] = "w_ret" /\ pc'[t] = "idle" /\ loc[t].op = "write" /\ loc[t].err = ErrNil) =>
              HeldInBucket(loc[t].m, loc[t].tg, loc[t].ft, hash2MStore', mstores', tstores')]_vars

\* C35: in a sweep the evictor reduces the size of the database by the MemSize of a
\* metric store only when it deletes that store: when the check under the bucket
\* lock finds the store no longer empty, the store stays in its bucket and the
\* step leaves the size of the database as it is.
C35_SizeReducedOnlyOnDelete ==
    [][(evictNotifier.pc = "e_lock" /\ evictNotifier'.pc \notin {"e_lock", "e_delete"}) =>
          /\ hash2MStore' = hash2MStore
          /\ size' = size]_vars

\* the evictor's steps other than the series eviction reduce the size of the
\* database by the MemSize of the metric store they have in hand, or not at all
C35_ReducedByMemSize ==
    [][(evictNotifier'.pc # evictNotifier.pc /\ evictNotifier.pc \in {"e_lock", "e_delete"}) =>
          \/ size' = size
          \/ size' = size - MStoreMemSize(mstores[evictNotifier.ms], tstores)]_vars

\* C36: when FlushFamilyTo(ft) returns an error while a metric store still holds
\* segments of ft (of a family other than 0, which Families() may lack for another
\* reason), ft is contained in Families() after the return, so that the next flush
\* pass flushes it again.
C36_FailedFamilyStaysListed ==
    [][\A t \in Threads :
          (/\ pc[t] = "f_ret" /\ pc'[t] = "idle"
           /\ loc[t].err # ErrNil
           /\ loc[t].ft # 0
           /\ loc[t].ft \in HeldFamilies') =>
              loc[t].ft \in familyTimes']_vars

\* the live tag indexes of a metric store: the mutable one, and the immutable one
\* when the slot holds one
LiveIndexes(ms) == {ms.mutable} \cup (IF HasImmutable(ms) THEN {ms.immutable} ELSE {})

\* for each live index that has the tag key, its series IDs under its own version
SeriesIDsByVersion(ms, tagKey) ==
    LET having == {index \in LiveIndexes(ms) : IndexGetSeriesIDsForTag(index, tagKey).found}
    IN [v \in {index.version : index \in having} |->
           IndexGetSeriesIDsForTag(CHOOSE index \in having : index.version = v, tagKey).bitMap]

\* the same for an expression
SeriesIDsByVersionOfExpr(ms, expr) ==
    LET having == {index \in LiveIndexes(ms) : IndexFindSeriesIDsByExpr(index, expr).found}
    IN [v \in {index.version : index \in having} |->
           IndexFindSeriesIDsByExpr(CHOOSE index \in having : index.version = v, expr).bitMap]

\* C37: GetSeriesIDsForTag(tagKey) of a metric store returns, for each live tag
\* index (mutable and immutable) that contains the tag key, one entry under that
\* index's own version with that index's series IDs.
C37_SeriesIDsUnderOwnVersion ==
    \A ref \in LiveMStores :
        MStoreGetSeriesIDsForTag(mstores[ref], "host") = SeriesIDsByVersion(mstores[ref], "host")

\* FindSeriesIDsByExpr keys each index's series IDs by that index's version, and
\* GetSeriesIDsForTag does as long as the immutable index lacks the tag key
C37_OwnVersionButImmutable ==
    \A ref \in LiveMStores :
        /\ \A expr \in TagSets :
              MStoreFindSeriesIDsByExpr(mstores[ref], expr) = SeriesIDsByVersionOfExpr(mstores[ref], expr)
        /\ ~(HasImmutable(mstores[ref]) /\ HasTagEntries(mstores[ref].immutable)) =>
              MStoreGetSeriesIDsForTag(mstores[ref], "host") = SeriesIDsByVersion(mstores[ref], "host")

\* C38: between the operations, after any sequence of Write, ResetVersion,
\* FlushMetricsDataTo and Evict, MemSize() of a metric store is at least
\* emptyMStoreSize, and when its immutable slot is empty it is emptyMStoreSize plus
\* the MemSize of its mutable index.
C38_MStoreSizeFollowsIndex ==
    Quiescent =>
        \A ref \in LiveMStores :
            /\ MStoreMemSize(mstores[ref], tstores) >= emptyMStoreSize
            /\ ~HasImmutable(mstores[ref]) =>
                  MStoreMemSize(mstores[ref], tstores)
                      = emptyMStoreSize + TagIndexMemSize(mstores[ref].mutable, tstores)

\* the same while no ResetVersion has succeeded on the metric store
C38_SizeFollowsIndexWithoutReset ==
    Quiescent =>
        \A ref \in LiveMStores :
            mstores[ref].mutable.version = 1 =>
                /\ MStoreMemSize(mstores[ref], tstores) >= emptyMStoreSize
                /\ MStoreMemSize(mstores[ref], tstores)
                      = emptyMStoreSize + TagIndexMemSize(mstores[ref].mutable, tstores)

\* the metrics that have a metric store in their bucket
StoredMetrics == {m \in DOMAIN hash2MStore : hash2MStore[m] # NoRef}

\* C39: with concurrent first writes of a metric, getOrCreateMStore never replaces
\* the metric store of a bucket by another one and hands every caller the store of
\* the bucket; the size of the database grows by the MemSize of the empty store
\* when the store is created and not otherwise; and metricID2Hash has an entry
\* exactly for the metric stores in the buckets, also after the evictor's deletions.
C39_OneStorePerHash ==
    /\ [][\A m \in DOMAIN hash2MStore :
             (hash2MStore[m] # NoRef /\ hash2MStore'[m] # hash2MStore[m]) =>
                 (hash2MStore'[m] = NoRef /\ evictNotifier.pc = "e_delete")]_vars
    /\ [][\A t \in Threads :
             (pc[t] \in {"idle", "w_mStore"} /\ pc'[t] = "w_isFull") =>
                 /\ loc'[t].ms # NoRef
                 /\ loc'[t].ms = hash2MStore'[loc'[t].m]
                 /\ size' = size + (IF hash2MStore[loc'[t].m] = NoRef
                                    THEN MStoreMemSize(newMetricStore(loc'[t].m, clock), <<>>)
                                    ELSE 0)]_vars
    /\ [](metricID2Hash = {mstores[hash2MStore[m]].metricID : m \in StoredMetrics})

\* two goroutines are in their first Write of the metric, one has created the
\* metric store and the other holds the same store
C39_Witness ==
    /\ \A t \in Threads : pc[t] = "w_isFull" /\ loc[t].ms = hash2MStore[loc[t].m]
    /\ \E t \in Threads : loc[t].newStore
    /\ \E t \in Threads : ~loc[t].newStore
    /\ Len(mstores) = 1

\* C40: Receive sends a response to the parent only when the task context has
\* reported Completed (no result is waited for), at most one response is sent per
\* task whatever the interleaving of the Receive calls, and a response with a task
\* ID the manager does not know returns nil at once and sends nothing.
C40_OneResponsePerTask ==
    /\ [](taskManager.responses <= 1)
    /\ [][taskManager'.responses # taskManager.responses => taskManager.expectResults = 0]_vars
    /\ [][\A t \in Threads :
             (taskManager.pc[t] = "idle" /\ taskManager'.calls # taskManager.calls
                  /\ ~taskManager'.known[t]) =>
                 /\ taskManager'.pc[t] = "idle"
                 /\ ~taskManager'.err[t]
                 /\ taskManager'.responses = taskManager.responses]_vars

\* the parts of it that hold: a response is sent only when no result is waited
\* for, and an unknown task ID is ignored
C40_SentWhenCompleted ==
    /\ [][taskManager'.responses # taskManager.responses => taskManager.expectResults = 0]_vars
    /\ [][\A t \in Threads :
             (taskManager.pc[t] = "idle" /\ taskManager'.calls # taskManager.calls
                  /\ ~taskManager'.known[t]) =>
                 /\ taskManager'.pc[t] = "idle"
                 /\ ~taskManager'.err[t]
                 /\ taskManager'.responses = taskManager.responses]_vars

====
